---------------------------- MODULE Spec2Model ----------------------------
(***************************************************************************)
(* Gait emotion recognition: the feature extractor                         *)
(* (src/src/feature_extractor.py) and the emotion model with its           *)
(* rule-based fallback (src/src/model.py).                                 *)
(*                                                                         *)
(* Feature values and thresholds are decimals with at most two places;     *)
(* they are kept in hundredths (1.5 is 150).  The scores the rule-based    *)
(* predictor accumulates are IEEE-754 doubles, and their rounding decides  *)
(* which of two categories is the larger, so a double x is kept exactly,   *)
(* as the integer x * 2^56 in two limbs <<hi, lo>> = hi * 2^28 + lo.       *)
(* (Checked against CPython: FloatAdd and FloatDiv give the same bits as   *)
(* float + and / on every sum and quotient the predictor can form.)        *)
(*                                                                         *)
(* The extractor's coordinates are integers in thousandths.  What it       *)
(* computes from them (norms, means, deviations, variances) is kept as     *)
(* exact terms such as Mean(<<Sqrt(12), Sqrt(3)>>) and never rounded; its   *)
(* shapes, guards, slices and exceptions are those of numpy.  Where the    *)
(* rounding of the coordinates themselves is the question (recentring and  *)
(* the three differences), they are float64 as well, on the same scale.    *)
(***************************************************************************)
EXTENDS Integers, Sequences, FiniteSets, TLC

VARIABLES
    features,   \* the 14-entry vector handed to the predictor (hundredths)
    result,     \* what the last prediction returned, or NoResult
    handles,    \* the EmotionModel objects constructed so far, by identity
    op,         \* the last operation on a handle: what ran and what it raised
    returned,   \* every <<handle, features, result>> a fallback-mode call returned
    skeleton_data,  \* the coordinate entries handed to the extractor
    n_joints,       \* the joint count handed with them
    keypoints,      \* the frames handed to extract_features, or None
    call,       \* the last call into feature_extractor.py: its name, arguments
                \* and what it returned or raised
    request,        \* the JSON body of the last POST /predict_emotion
    fusion_model,   \* main.py's global of that name: what its import loaded
    response,       \* the status code and body answered to that POST
    model_instance, \* model.py's global _model_instance
    threads     \* each thread's call of get_model or predict_emotion: where
                \* it stands and what it holds

modelVars == <<features, result, handles, op, returned>>

extractVars == <<skeleton_data, n_joints, keypoints, call>>

apiVars == <<request, fusion_model, response>>

singletonVars == <<model_instance, threads>>

vars == <<features, result, handles, op, returned,
          skeleton_data, n_joints, keypoints, call,
          request, fusion_model, response, model_instance, threads>>

NoResult == [status |-> "none"]

\* A feature vector as numpy holds it: indices 0..13.
Vector(v) == [i \in 0..13 |-> v[i + 1]]

ZeroVector == Vector(<<0, 0, 0, 0, 0, 0, 0, 0, 0, 0, 0, 0, 0, 0>>)

\* Python's None.
None == [type |-> "NoneType"]

-----------------------------------------------------------------------------
(* IEEE-754 doubles in [0, 8), scaled by 2^56.                             *)

Limb == 2 ^ 28

DZero == <<0, 0>>
\* The literals of _rule_based_prediction, as the doubles Python reads.
D_0_1  == <<26843545, 161061274>>       \* 0.1   0x3FB999999999999A
D_0_15 == <<40265318, 107374182>>       \* 0.15  0x3FC3333333333333
D_0_2  == <<53687091, 53687092>>        \* 0.2   0x3FC999999999999A
D_0_25 == <<67108864, 0>>               \* 0.25
D_0_3  == <<80530636, 214748364>>       \* 0.3   0x3FD3333333333333
D_0_5  == <<134217728, 0>>              \* 0.5
D_1_0  == <<268435456, 0>>              \* 1.0
D_6_0  == <<1610612736, 0>>             \* 6.0

DLess(a, b) == a[1] < b[1] \/ (a[1] = b[1] /\ a[2] < b[2])
DLeq(a, b) == a = b \/ DLess(a, b)

\* The spacing of the doubles around a value with high limb hi, in units of
\* 2^-56: 53 significant bits, so 1 below 2^53 (hi < 2^25) and doubling with
\* every binade above.
Ulp(hi) ==
    IF hi < 33554432 THEN 1
    ELSE IF hi < 67108864 THEN 2
    ELSE IF hi < 134217728 THEN 4
    ELSE IF hi < 268435456 THEN 8
    ELSE IF hi < 536870912 THEN 16
    ELSE IF hi < 1073741824 THEN 32
    ELSE 64

\* lo rounded to a multiple of g: to nearest, ties to the even multiple.
RoundLimb(lo, g) ==
    (lo - (lo % g))
      + (IF 2 * (lo % g) > g \/ (2 * (lo % g) = g /\ (lo \div g) % 2 = 1)
         THEN g ELSE 0)

Carry(hi, lo) == IF lo = Limb THEN <<hi + 1, 0>> ELSE <<hi, lo>>

\* The exact sum hi * 2^28 + lo rounded to a double.
RoundSum(hi, lo) == Carry(hi, RoundLimb(lo, Ulp(hi)))

\* a + b in double arithmetic: the exact sum rounded to nearest, ties to even.
FloatAdd(a, b) ==
    RoundSum(a[1] + b[1] + ((a[2] + b[2]) \div Limb), (a[2] + b[2]) % Limb)

DSub(a, b) ==                           \* a - b exactly, for a >= b
    IF a[2] >= b[2] THEN <<a[1] - b[1], a[2] - b[2]>>
    ELSE <<a[1] - b[1] - 1, a[2] + Limb - b[2]>>

DAddExact(a, b) ==                      \* a + b exactly (no rounding)
    <<a[1] + b[1] + ((a[2] + b[2]) \div Limb), (a[2] + b[2]) % Limb>>

\* 2 * rem against b, with d = b - rem: the quotient bit and the remainder.
DivStepBy(rem, d) ==
    IF DLess(rem, d) THEN <<0, DAddExact(rem, rem)>> ELSE <<1, DSub(rem, d)>>

\* One step of the long division rem / b (rem < b): the next quotient bit and
\* the remainder left.
DivStep(rem, b) == DivStepBy(rem, DSub(b, rem))

\* The quotient bits up to and with the first 1: <<how many, remainder>>.
RECURSIVE DivLead(_, _, _)
DivLeadFrom(st, b, s) ==
    IF st[1] = 1 THEN <<s + 1, st[2]>> ELSE DivLead(st[2], b, s + 1)

DivLead(rem, b, s) == DivLeadFrom(DivStep(rem, b), b, s)

\* The step st appended to the quotient q: <<remainder, 2 * q + bit>>.
Push(st, q) == <<st[2], DAddExact(DAddExact(q, q), <<0, st[1]>>)>>

\* n more quotient bits appended to q; x is <<remainder, q>>.  The remainder
\* of a long division stays below the divisor.
RECURSIVE DivBits(_, _, _)
DivBitsFrom(y, b, n) == IF DLess(y[1], b) THEN DivBits(y, b, n - 1) ELSE y

DivBits(x, b, n) ==
    IF n = 0 THEN x ELSE DivBitsFrom(Push(DivStep(x[1], b), x[2]), b, n)

\* A quotient of two doubles is a double <<s, qhi, qlo>>, standing for
\* q * 2^-(s+52) with the 53-bit mantissa q = qhi * 2^28 + qlo; <<0,0,0>> is 0.
QZero == <<0, 0, 0>>
QOne == <<0, 16777216, 0>>

\* A mantissa that rounding carried to 2^53 is 2^52 one binade up.
Renormalise(s, q) ==
    IF q = <<33554432, 0>> THEN <<s - 1, 16777216, 0>> ELSE <<s, q[1], q[2]>>

\* Round to nearest, ties to even, on the guard bit gs[1] and the remainder.
RoundQuot(q, gs) ==
    IF gs[1] = 1 /\ (gs[2] # DZero \/ q[2] % 2 = 1)
    THEN DAddExact(q, <<0, 1>>) ELSE q

DivRound(s, body, b) ==
    Renormalise(s, RoundQuot(body[2], DivStep(body[1], b)))

DivFrom(lead, b) ==
    DivRound(lead[1], DivBits(<<lead[2], <<0, 1>>>>, b, 52), b)

\* a / b in double arithmetic for 0 <= a <= b, b > 0: 53 quotient bits, then
\* round to nearest, ties to even, on the guard bit and the remainder.
FloatDiv(a, b) ==
    IF a = DZero THEN QZero
    ELSE IF a = b THEN QOne
    ELSE DivFrom(DivLead(a, b, 0), b)

QLess(x, y) ==
    IF y = QZero THEN FALSE
    ELSE IF x = QZero THEN TRUE
    ELSE x[1] > y[1] \/ (x[1] = y[1] /\ DLess(<<x[2], x[3]>>, <<y[2], y[3]>>))

\* The double a / b is kept as the pair <<a, b>> and divided out only where
\* its value is asked for.
QuotValue(p) == FloatDiv(p[1], p[2])

\* p < q as doubles.  Two quotients over one divisor (below 8) whose dividends
\* lie 2^-28 or more apart lie more than 2^-31 apart, so they round to
\* different doubles in the order of their dividends; closer ones are divided
\* out.
QuotLess(p, q) ==
    IF p = q THEN FALSE
    ELSE IF p[2] = q[2] /\ p[1][1] + 1 < q[1][1] THEN TRUE
    ELSE IF p[2] = q[2] /\ q[1][1] + 1 < p[1][1] THEN FALSE
    ELSE QLess(QuotValue(p), QuotValue(q))

-----------------------------------------------------------------------------
(* model.py: the rule-based predictor.                                     *)

EMOTION_CLASSES == <<"Happy", "Sad", "Fear", "Disgust", "Angry", "Neutral">>

Emotions == {EMOTION_CLASSES[i] : i \in 1..6}

\* `score += w` when cond holds.
AddIf(score, cond, w) == IF cond THEN FloatAdd(score, w) ELSE score

\* Features are indexed from 0 as in the code: f[0] is features[0].
happy_score(f) ==
    LET s1 == AddIf(DZero, f[0] > 150 /\ f[11] > 120, D_0_3)
        s2 == AddIf(s1, f[4] > 40, D_0_2)
        s3 == AddIf(s2, f[7] > 30, D_0_2)
        s4 == AddIf(s3, f[1] > 60, D_0_15)
    IN  AddIf(s4, f[10] > 70, D_0_15)

sad_score(f) ==
    LET s1 == AddIf(DZero, f[0] < 80 /\ f[11] < 80, D_0_3)
        s2 == AddIf(s1, f[4] < 20, D_0_2)
        s3 == AddIf(s2, f[5] < -10, D_0_2)
        s4 == AddIf(s3, f[1] < 40, D_0_15)
    IN  AddIf(s4, f[7] < 15, D_0_15)

\* A faulty Fear score: an arm swing of exactly 0.3 counts as limited.
FearScoreInclusive(f) ==
    LET s1 == AddIf(DZero, 90 < f[0] /\ f[0] < 140 /\ f[10] < 65, D_0_3)
        s2 == AddIf(s1, f[6] < 45, D_0_25)
        s3 == AddIf(s2, f[4] <= 30, D_0_2)
        s4 == AddIf(s3, f[11] > 90 /\ f[11] < 130, D_0_15)
    IN  AddIf(s4, f[1] < 50, D_0_1)

fear_score(f) ==
    LET s1 == AddIf(DZero, 90 < f[0] /\ f[0] < 140 /\ f[10] < 65, D_0_3)
        s2 == AddIf(s1, f[6] < 45, D_0_25)
        s3 == AddIf(s2, f[4] < 30, D_0_2)
        s4 == AddIf(s3, f[11] > 90 /\ f[11] < 130, D_0_15)
    IN  AddIf(s4, f[1] < 50, D_0_1)

disgust_score(f) ==
    LET s1 == AddIf(DZero, f[0] < 100 /\ f[6] < 40, D_0_3)
        s2 == AddIf(s1, f[5] < -5, D_0_2)
        s3 == AddIf(s2, f[4] < 25, D_0_2)
        s4 == AddIf(s3, f[1] < 45, D_0_15)
    IN  AddIf(s4, f[7] < 20, D_0_15)

angry_score(f) ==
    LET s1 == AddIf(DZero, f[0] > 130 /\ f[10] < 60, D_0_3)
        s2 == AddIf(s1, f[11] > 150, D_0_2)
        s3 == AddIf(s2, f[6] < 40, D_0_2)
        s4 == AddIf(s3, f[4] < 25, D_0_15)
    IN  AddIf(s4, f[2] > 300, D_0_15)

\* A faulty base score: Neutral starts from nothing, like the others.
NoNeutralBase == DZero

neutral_score == D_0_5

\* A dictionary keyed by the six emotions is kept as the tuple of its values
\* in insertion order, which here is always that of EMOTION_CLASSES.
KeyIndex(e) == CHOOSE i \in 1..6 : EMOTION_CLASSES[i] = e

AsDict(values) == [e \in Emotions |-> values[KeyIndex(e)]]

Scores(f) ==
    <<happy_score(f), sad_score(f), fear_score(f),
      disgust_score(f), angry_score(f), neutral_score>>

\* A faulty total: Neutral's base score added once more.
SkewedTotal(scores) ==
    FloatAdd(FloatAdd(FloatAdd(FloatAdd(FloatAdd(FloatAdd(FloatAdd(
        DZero, scores[1]), scores[2]), scores[3]), scores[4]), scores[5]),
        scores[6]), neutral_score)

\* sum(scores.values()): the values added one by one, in dictionary order.
total_score(scores) ==
    FloatAdd(FloatAdd(FloatAdd(FloatAdd(FloatAdd(FloatAdd(
        DZero, scores[1]), scores[2]), scores[3]), scores[4]), scores[5]), scores[6])

Uniform == <<D_1_0, D_6_0>>

Normalise(scores, total) ==
    IF DLess(DZero, total)
    THEN <<<<scores[1], total>>, <<scores[2], total>>,
           <<scores[3], total>>, <<scores[4], total>>,
           <<scores[5], total>>, <<scores[6], total>>>>
    ELSE <<Uniform, Uniform, Uniform, Uniform, Uniform, Uniform>>

Probabilities(scores) == Normalise(scores, total_score(scores))

\* A faulty choice: the key held also gives way to an equal value.
GreaterOrEqual(p, best, k) == IF QuotLess(p[k], p[best]) THEN best ELSE k

\* max() walks the keys in dictionary order and keeps the one it holds
\* unless the next one's value is greater.
Greater(p, best, k) == IF QuotLess(p[best], p[k]) THEN k ELSE best

ArgMaxLast(p) ==
    GreaterOrEqual(p, GreaterOrEqual(p, GreaterOrEqual(p, GreaterOrEqual(p,
        GreaterOrEqual(p, 1, 2), 3), 4), 5), 6)

\* max(probabilities, key=probabilities.get)
ArgMax(p) ==
    Greater(p, Greater(p, Greater(p, Greater(p, Greater(p, 1, 2), 3), 4), 5), 6)

Prediction(probabilities, predicted) ==
    [status |-> "ok",
     emotion |-> EMOTION_CLASSES[predicted],
     confidence |-> probabilities[predicted],
     probabilities |-> AsDict(probabilities)]

PredictFrom(probabilities) == Prediction(probabilities, ArgMax(probabilities))

\* A faulty predictor: it scores the vector of the call before, once there
\* has been one.
StalePrediction(f) ==
    PredictFrom(Probabilities(Scores(IF features = ZeroVector THEN f ELSE features)))

RuleBasedPrediction(f) == PredictFrom(Probabilities(Scores(f)))

-----------------------------------------------------------------------------
(* model.py: EmotionModel, its loading and its two prediction strategies.  *)

\* What joblib can find at a path: no file, a file it fails to load, or a
\* file holding an object.  A classifier object has predict; it may lack
\* predict_proba, and it may have been fitted on another number of features.
Classifier(proba, nfeat) ==
    [type |-> "classifier", has_predict_proba |-> proba,
     classes_ |-> <<"Angry", "Happy", "Sad">>, n_features_in_ |-> nfeat]

\* A classifier fitted on the numbers 0, 1, 2 in place of names.  A number n
\* as a label is written "int:n", which is no string a label can be.
Numbered(proba) ==
    [Classifier(proba, 14) EXCEPT !.classes_ = <<"int:0", "int:1", "int:2">>]

\* str(prediction): a name is its own string form, the number n has "n".
str(label) ==
    CASE label = "int:0" -> "0"
      [] label = "int:1" -> "1"
      [] label = "int:2" -> "2"
      [] OTHER -> label

Bundle(keys) == [type |-> "dict", keys |-> keys]

Paths ==
    {"missing", "corrupt", "legacy", "legacy_noproba", "legacy_10d",
     "legacy_numbered", "bundle", "bundle_nomodel", "pickled_none"}

Artifact(path) ==
    CASE path = "missing" -> [exists |-> FALSE]
      [] path = "corrupt" -> [exists |-> TRUE, loads |-> FALSE]
      [] path = "legacy" ->
            [exists |-> TRUE, loads |-> TRUE, object |-> Classifier(TRUE, 14)]
      [] path = "legacy_noproba" ->
            [exists |-> TRUE, loads |-> TRUE, object |-> Classifier(FALSE, 14)]
      [] path = "legacy_10d" ->
            [exists |-> TRUE, loads |-> TRUE, object |-> Classifier(TRUE, 10)]
      [] path = "legacy_numbered" ->
            [exists |-> TRUE, loads |-> TRUE, object |-> Numbered(FALSE)]
      [] path = "bundle" ->
            [exists |-> TRUE, loads |-> TRUE,
             object |-> Bundle({"model", "scaler", "label_encoder", "classes"})]
      [] path = "bundle_nomodel" ->
            [exists |-> TRUE, loads |-> TRUE,
             object |-> Bundle({"scaler", "label_encoder", "classes"})]
      [] path = "pickled_none" ->
            [exists |-> TRUE, loads |-> TRUE, object |-> None]

NoHandle == [constructed |-> FALSE]

\* A faulty _load_model: the branch for an absent file does not set the flag.
LoadModelKeepFlag(self) ==
    IF Artifact(self.model_path).exists /\ Artifact(self.model_path).loads
    THEN [attrs |-> [self EXCEPT !.model = Artifact(self.model_path).object],
          raised |-> "none", log |-> <<"info">>]
    ELSE [attrs |-> [self EXCEPT !.use_fallback = Artifact(self.model_path).exists],
          raised |-> "none", log |-> <<"warning">>]

\* A faulty _load_model: joblib.load is called outside any try.
LoadModelUnguarded(self) ==
    IF Artifact(self.model_path).exists
    THEN IF Artifact(self.model_path).loads
         THEN [attrs |-> [self EXCEPT !.model = Artifact(self.model_path).object],
               raised |-> "none", log |-> <<"info">>]
         ELSE [attrs |-> self, raised |-> "Exception", log |-> <<>>]
    ELSE [attrs |-> [self EXCEPT !.use_fallback = TRUE],
          raised |-> "none", log |-> <<"warning">>]

\* _load_model on an object whose __init__ has set model_path, model = None
\* and use_fallback = False.  Returns the object's attributes and the log.
LoadModel(self) ==
    LET file == Artifact(self.model_path)
    IN  IF file.exists
        THEN IF file.loads
             THEN [attrs |-> [self EXCEPT !.model = file.object,
                                          !.use_fallback = FALSE],
                   raised |-> "none", log |-> <<"info">>]
             ELSE [attrs |-> [self EXCEPT !.use_fallback = TRUE],
                   raised |-> "none", log |-> <<"warning">>]
        ELSE [attrs |-> [self EXCEPT !.use_fallback = TRUE],
              raised |-> "none", log |-> <<"warning">>]

\* EmotionModel(model_path): the attributes are exactly those __init__ and
\* _load_model assign.
EmotionModelInit(model_path) ==
    LoadModel([constructed |-> TRUE, model_path |-> model_path,
               model |-> None, use_fallback |-> FALSE])

\* The attributes an object carries besides the model's bookkeeping field.
Attributes(h) == DOMAIN h \ {"constructed"}

\* What the loaded classifier may answer for one row: raise, or a label and
\* (with predict_proba) one probability per class, in percent.
ProbaRows == {<<70, 20, 10>>, <<20, 50, 30>>, <<40, 40, 20>>}

ClassifierOutcomes(model, f) ==
    IF model.n_features_in_ # 14
    THEN {[raises |-> TRUE]}
    ELSE {[raises |-> TRUE]} \cup
         {[raises |-> FALSE, prediction |-> model.classes_[i], proba |-> row] :
            i \in 1..Len(model.classes_), row \in ProbaRows}

Percent(n) == <<<<0, n>>, <<0, 100>>>>
QuotOne == <<D_1_0, D_1_0>>

MaxOf(row) ==
    CHOOSE i \in 1..Len(row) : \A j \in 1..Len(row) : row[j] <= row[i]

\* What a call on an EmotionModel leaves: the value returned or the exception
\* let through, the object's attributes afterwards, the methods that ran and
\* the log records written.
Answer(self, value, calls, log) ==
    [result |-> value, raised |-> "none", attrs |-> self, calls |-> calls,
     log |-> log]

\* The dictionary _model_based_prediction returns when the model answered:
\* with predict_proba the probabilities keyed by classes_ and their maximum,
\* without it the predicted label alone, at 1.0.
ModelResult(model, out) ==
    IF model.has_predict_proba
    THEN [status |-> "ok",
          emotion |-> str(out.prediction),
          confidence |-> Percent(out.proba[MaxOf(out.proba)]),
          probabilities |->
              [l \in {model.classes_[i] : i \in 1..Len(model.classes_)} |->
                  Percent(out.proba[CHOOSE i \in 1..Len(model.classes_) :
                                        model.classes_[i] = l])]]
    ELSE [status |-> "ok",
          emotion |-> str(out.prediction),
          confidence |-> QuotOne,
          probabilities |-> [l \in {out.prediction} |-> QuotOne]]

\* A faulty _model_based_prediction: no try around the model's calls.
ModelBasedUncaught(self, f, out) ==
    IF self.model.type # "classifier" \/ out.raises
    THEN [result |-> NoResult, raised |-> "Exception", attrs |-> self,
          calls |-> <<"_model_based_prediction">>, log |-> <<>>]
    ELSE Answer(self, ModelResult(self.model, out),
                <<"_model_based_prediction">>, <<>>)

\* A faulty _model_based_prediction: a failed call switches the object to
\* the rule-based strategy for good.
ModelBasedSticky(self, f, out) ==
    IF self.model.type # "classifier" \/ out.raises
    THEN Answer([self EXCEPT !.use_fallback = TRUE], RuleBasedPrediction(f),
                <<"_model_based_prediction", "_rule_based_prediction">>,
                <<"error">>)
    ELSE Answer(self, ModelResult(self.model, out),
                <<"_model_based_prediction">>, <<>>)

\* _model_based_prediction: any exception inside the try answers with the
\* rule-based prediction.
ModelBasedPrediction(self, f, out) ==
    IF self.model.type # "classifier" \/ out.raises
    THEN Answer(self, RuleBasedPrediction(f),
                <<"_model_based_prediction", "_rule_based_prediction">>,
                <<"error">>)
    ELSE Answer(self, ModelResult(self.model, out),
                <<"_model_based_prediction">>, <<>>)

\* EmotionModel.predict_emotion
PredictEmotion(self, f, out) ==
    IF self.use_fallback
    THEN Answer(self, RuleBasedPrediction(f), <<"_rule_based_prediction">>, <<>>)
    ELSE ModelBasedPrediction(self, f, out)

-----------------------------------------------------------------------------
(* feature_extractor.py.                                                   *)
(*                                                                         *)
(* Coordinates are decimals with at most three places, kept in             *)
(* thousandths.  An entry "x,y,z" is kept as the list of fields its commas *)
(* separate (what s.split(',') returns); a field is the text of a number   *)
(* or text that float() rejects.  An array is a sequence (of sequences),   *)
(* indexed from 1: joint j of the code is element j + 1 of a frame.        *)
(* A statistic is kept as the expression numpy evaluates over exact data:  *)
(* Sqrt(n) is the root of the integer n, Mean(xs) the mean of xs.          *)

NumberText(n) == [numeric |-> TRUE, value |-> n]

OtherText == [numeric |-> FALSE]

\* f"{x},{y},{z}"
Entry(x, y, z) == <<NumberText(x), NumberText(y), NumberText(z)>>

\* What a call gives back: a value, or the exception it raised and where;
\* calls lists the functions of the module that ran, in order.
Returns(v, calls) ==
    [raised |-> "none", site |-> "", detail |-> <<>>, value |-> v,
     calls |-> calls]

Raises(exception, site, detail, calls) ==
    [raised |-> exception, site |-> site, detail |-> detail, value |-> None,
     calls |-> calls]

\* r, reached after the calls before.
After(before, r) == [r EXCEPT !.calls = before \o @]

\* A two-dimensional array with every element worked out, once: the rows of
\* m up to row n, and all of m.
RECURSIVE Rows(_, _)
Rows(m, n) ==
    IF n = 0 THEN <<>> ELSE Append(Rows(m, n - 1), SubSeq(m[n], 1, Len(m[n])))

Array(m) == Rows(m, Len(m))

\* The entry has three fields and float() reads each of them.
Parses(s) == Len(s) = 3 /\ \A k \in 1..3 : s[k].numeric

\* The first entry the loop of parse_skeleton_data fails on.
FirstBad(skeleton) ==
    CHOOSE i \in 1..Len(skeleton) :
        ~Parses(skeleton[i]) /\ \A k \in 1..(i - 1) : Parses(skeleton[k])

\* coords.append([float(parts[0]), float(parts[1]), float(parts[2])])
Coords(skeleton) ==
    [i \in 1..Len(skeleton) |->
        <<skeleton[i][1].value, skeleton[i][2].value, skeleton[i][3].value>>]

\* A faulty reshape: entries beyond the last whole frame are dropped.
ReshapeTruncating(coords, frames, joints) ==
    Returns(Array([f \in 1..frames |->
                [j \in 1..joints |-> coords[(f - 1) * joints + j]]]),
            <<"parse_skeleton_data">>)

\* coords.reshape(n_frames, n_joints, 3): numpy refuses a size that differs.
reshape(coords, frames, joints) ==
    IF Len(coords) # frames * joints
    THEN Raises("ValueError", "reshape", <<Len(coords), frames, joints>>,
                <<"parse_skeleton_data">>)
    ELSE Returns(Array([f \in 1..frames |->
                    [j \in 1..joints |-> coords[(f - 1) * joints + j]]]),
                 <<"parse_skeleton_data">>)

ToFrames(coords, frames, joints) ==
    IF frames = 0
    THEN Raises("ValueError", "n_frames", <<joints>>, <<"parse_skeleton_data">>)
    ELSE reshape(coords, frames, joints)

\* A faulty parser: the frames are counted before the entries are read.
ParseCountingFirst(skeleton, joints) ==
    IF Len(skeleton) \div joints = 0
    THEN Raises("ValueError", "n_frames", <<joints>>, <<"parse_skeleton_data">>)
    ELSE IF \E i \in 1..Len(skeleton) : ~Parses(skeleton[i])
    THEN Raises("ValueError", "entry",
                <<FirstBad(skeleton) - 1, skeleton[FirstBad(skeleton)]>>,
                <<"parse_skeleton_data">>)
    ELSE reshape(Coords(skeleton), Len(skeleton) \div joints, joints)

parse_skeleton_data(skeleton, joints) ==
    IF \E i \in 1..Len(skeleton) : ~Parses(skeleton[i])
    THEN Raises("ValueError", "entry",
                <<FirstBad(skeleton) - 1, skeleton[FirstBad(skeleton)]>>,
                <<"parse_skeleton_data">>)
    ELSE ToFrames(Coords(skeleton), Len(skeleton) \div joints, joints)

Minus(a, b) == <<a[1] - b[1], a[2] - b[2], a[3] - b[3]>>

\* data - data[:, 0:1, :]
root_centering(data) ==
    Array([f \in 1..Len(data) |->
            [j \in 1..Len(data[f]) |-> Minus(data[f][j], data[f][1])]])

\* np.tile(data[0:1], (n, 1, 1))
Tile(frame, n) == [i \in 1..n |-> frame]

\* A faulty padding: the copies are appended.
PadAtEnd(data, min_frames) ==
    IF Len(data) >= min_frames
    THEN data
    ELSE data \o Tile(data[1], min_frames - Len(data))

\* A faulty padding: the data are returned as they came.
Unpadded(data, min_frames) == data

ensure_min_frames(data, min_frames) ==
    IF Len(data) >= min_frames
    THEN data
    ELSE Tile(data[1], min_frames - Len(data)) \o data

\* extract_features_from_skeleton pads to min_frames=4.
MinFrames == 4

\* np.diff(a, axis=0)
np_diff(a) ==
    Array([i \in 1..(Len(a) - 1) |->
            [j \in 1..Len(a[i]) |-> Minus(a[i + 1][j], a[i][j])]])

Sqrt(n) == [fn |-> "sqrt", of |-> n]

Num(n) == [fn |-> "num", of |-> n]

Mean(xs) == [fn |-> "mean", of |-> xs]

Std(xs) == [fn |-> "std", of |-> xs]

Var(xs) == [fn |-> "var", of |-> xs]

\* abs(a - b)
AbsDiff(a, b) == [fn |-> "abs_diff", of |-> <<a, b>>]

\* x / 2
Half(x) == [fn |-> "half", of |-> x]

\* np.linalg.norm of one vector
Norm(v) == Sqrt(v[1] * v[1] + v[2] * v[2] + v[3] * v[3])

\* np.linalg.norm(a, axis=2)
norm_axis2(a) ==
    Array([i \in 1..Len(a) |-> [j \in 1..Len(a[i]) |-> Norm(a[i][j])]])

\* m.size of a two-dimensional array
Size(m) == IF Len(m) = 0 THEN 0 ELSE Len(m) * Len(m[1])

\* The entries of m, row by row.
Flatten(m) ==
    [k \in 1..Size(m) |->
        m[((k - 1) \div Len(m[1])) + 1][((k - 1) % Len(m[1])) + 1]]

\* m[:, j]
Column(m, j) == [i \in 1..Len(m) |-> m[i][j + 1]]

\* m[:, -1]
LastColumn(m) == Column(m, Len(m[1]) - 1)

\* m[:, [a, b]], row by row
Columns(m, js) ==
    [k \in 1..(2 * Len(m)) |-> m[((k - 1) \div 2) + 1][js[((k - 1) % 2) + 1] + 1]]

\* The largest of a list of roots: the root of the largest radicand.
LargestRoot(xs) ==
    xs[CHOOSE i \in 1..Len(xs) : \A k \in 1..Len(xs) : xs[k].of <= xs[i].of]

np_max(m) == LargestRoot(Flatten(m))

SetMax(S) == CHOOSE x \in S : \A y \in S : y <= x

SetMin(S) == CHOOSE x \in S : \A y \in S : x <= y

\* np.max(frame[:, c]) - np.min(frame[:, c])
Extent(frame, c) ==
    SetMax({frame[j][c] : j \in 1..Len(frame)})
      - SetMin({frame[j][c] : j \in 1..Len(frame)})

\* max(z_range, 0.001), in thousandths
FlooredExtent(z_range) == IF z_range > 1 THEN z_range ELSE 1

bbox_volumes(data) ==
    [f \in 1..Len(data) |->
        Num(Extent(data[f], 1) * Extent(data[f], 2)
              * FlooredExtent(Extent(data[f], 3)))]

\* data[:, 0, 1] - data[:, 1, 1]
head_tilt(data) == [f \in 1..Len(data) |-> Num(data[f][1][2] - data[f][2][2])]

Plus(a, b) == <<a[1] + b[1], a[2] + b[2], a[3] + b[3]>>

\* |(d1 + d2) / 2 - (d7 + d8) / 2| is half of |(d1 + d2) - (d7 + d8)|
spine_length(data) ==
    [f \in 1..Len(data) |->
        Half(Norm(Minus(Plus(data[f][2], data[f][3]),
                        Plus(data[f][8], data[f][9]))))]

\* np.var(vel_magnitude, axis=0)
joint_variances(vel_magnitude) ==
    [j \in 1..Len(vel_magnitude[1]) |-> Var(Column(vel_magnitude, j - 1))]

Smaller(a, b) == IF a < b THEN a ELSE b

\* xs[np.argsort(xs)[-n:]]: the n largest of xs (all of xs when it has
\* fewer), in ascending order; rank 1 is the largest.
Largest(xs, n) ==
    [i \in 1..Smaller(n, Len(xs)) |->
        [fn |-> "largest", of |-> <<Smaller(n, Len(xs)) - i + 1, xs>>]]

\* features[0..10] as assigned onto np.zeros(14)
Assigned(data, vel_magnitude, acc_magnitude, jerk_magnitude, joints) ==
    [i \in 0..13 |->
        CASE i = 0 -> Mean(Flatten(vel_magnitude))
          [] i = 1 -> np_max(vel_magnitude)
          [] i = 2 -> Std(Flatten(vel_magnitude))
          [] i = 3 -> IF Size(acc_magnitude) > 0
                      THEN Mean(Flatten(acc_magnitude)) ELSE Num(0)
          [] i = 4 -> IF Size(jerk_magnitude) > 0
                      THEN Mean(Flatten(jerk_magnitude)) ELSE Num(0)
          [] i = 5 -> IF joints > 6 THEN Mean(Columns(vel_magnitude, <<5, 6>>))
                      ELSE IF joints > 1 THEN Mean(LastColumn(vel_magnitude))
                      ELSE Num(0)
          [] i = 6 -> IF joints > 12 THEN Mean(Columns(vel_magnitude, <<11, 12>>))
                      ELSE IF joints > 1 THEN Mean(LastColumn(vel_magnitude))
                      ELSE Num(0)
          [] i = 7 -> IF joints > 6
                      THEN AbsDiff(Mean(Column(vel_magnitude, 5)),
                                   Mean(Column(vel_magnitude, 6)))
                      ELSE Num(0)
          [] i = 8 -> Mean(bbox_volumes(data))
          [] i = 9 -> IF joints > 1 THEN Mean(head_tilt(data)) ELSE Num(0)
          [] i = 10 -> IF joints > 8 THEN Mean(spine_length(data)) ELSE Num(0)
          [] OTHER -> Num(0)]

\* vec[11:14] = values: numpy takes three values, repeats a single one, and
\* refuses any other number of them.
SetSlice(vec, values) ==
    IF Len(values) = 3
    THEN Returns([i \in 0..13 |-> IF i >= 11 THEN values[i - 10] ELSE vec[i]], <<>>)
    ELSE IF Len(values) = 1
    THEN Returns([i \in 0..13 |-> IF i >= 11 THEN values[1] ELSE vec[i]], <<>>)
    ELSE Raises("ValueError", "broadcast", <<Len(values), 3>>, <<>>)

Assemble(data, vel_magnitude, acc_magnitude, jerk_magnitude, joints) ==
    SetSlice(Assigned(data, vel_magnitude, acc_magnitude, jerk_magnitude, joints),
             Largest(joint_variances(vel_magnitude), 3))

Differentiate(data, velocity, acceleration, joints) ==
    Assemble(data, norm_axis2(velocity), norm_axis2(acceleration),
             norm_axis2(np_diff(acceleration)), joints)

FromVelocity(data, velocity, joints) ==
    Differentiate(data, velocity, np_diff(velocity), joints)

FromFrames(data, joints) == FromVelocity(data, np_diff(data), joints)

FromParsed(parsed, joints) ==
    IF parsed.raised # "none"
    THEN parsed
    ELSE After(<<"parse_skeleton_data", "root_centering", "ensure_min_frames",
                 "np.diff">>,
               FromFrames(ensure_min_frames(root_centering(parsed.value),
                                            MinFrames), joints))

extract_features_from_skeleton(skeleton, joints) ==
    FromParsed(parse_skeleton_data(skeleton, joints), joints)

\* The vector extract_features returns for fewer than two frames, in
\* hundredths: 1.0, 0.5, 2.0, 0.1, 0.3, 0.0, 0.5, 0.2, 0.1, 0.05, 0.8, 1.0,
\* 0.5, 0.3.
DefaultFeatures ==
    Vector(<<100, 50, 200, 10, 30, 0, 50, 20, 10, 5, 80, 100, 50, 30>>)

joint_names ==
    <<"nose", "left_shoulder", "right_shoulder",
      "left_elbow", "right_elbow", "left_wrist", "right_wrist",
      "left_hip", "right_hip", "left_knee", "right_knee",
      "left_ankle", "right_ankle">>

\* A Python list.
List(items) == [type |-> "list", items |-> items]

\* A faulty entry: the text of whatever the frame holds under the name, a
\* text that is no number when it holds nothing.
JointEntryAsGiven(frame, joint_name) ==
    IF joint_name \in DOMAIN frame /\ Len(frame[joint_name]) > 0
    THEN Entry(frame[joint_name][1], frame[joint_name][2],
               IF Len(frame[joint_name]) > 2 THEN frame[joint_name][3] ELSE 0)
    ELSE <<OtherText, OtherText, OtherText>>

\* The entry extract_features appends for one joint name of one frame (a
\* dictionary: a function from the names it has to coordinate lists).
JointEntry(frame, joint_name) ==
    IF joint_name \in DOMAIN frame /\ Len(frame[joint_name]) > 0
    THEN Entry(frame[joint_name][1], frame[joint_name][2],
               IF Len(frame[joint_name]) > 2 THEN frame[joint_name][3] ELSE 0)
    ELSE Entry(0, 0, 0)

\* skeleton_data as the two loops of extract_features build it.
SkeletonOf(frames) ==
    [k \in 1..(Len(frames) * Len(joint_names)) |->
        JointEntry(frames[((k - 1) \div Len(joint_names)) + 1],
                   joint_names[((k - 1) % Len(joint_names)) + 1])]

\* A faulty extract_features: only an empty input gets the default vector.
ExtractWithoutGuard(kp) ==
    IF kp.type = "NoneType" \/ Len(kp.items) = 0
    THEN Returns(DefaultFeatures, <<>>)
    ELSE After(<<"extract_features_from_skeleton">>,
               extract_features_from_skeleton(SkeletonOf(kp.items),
                                              Len(joint_names)))

extract_features(kp) ==
    IF kp.type = "NoneType" \/ Len(kp.items) = 0 \/ Len(kp.items) < 2
    THEN Returns(DefaultFeatures, <<>>)
    ELSE After(<<"extract_features_from_skeleton">>,
               extract_features_from_skeleton(SkeletonOf(kp.items),
                                              Len(joint_names)))

-----------------------------------------------------------------------------
(* The inputs the extractor is run on.                                     *)

\* Joint counts run over 1..MaxJoints, whole frames of a clip over
\* 0..MaxFrames, entries beyond the last whole frame over 0..MaxExtra,
\* min_frames over 1..MaxMinFrames, frames given to extract_features over
\* 0..MaxKeyFrames.
MaxJoints == 33

MaxFrames == 5

MaxExtra == 2

MaxMinFrames == 6

MaxKeyFrames == 3

\* Where joint j (from 0) rests, as in tests/test_api.py.
Base(j) == <<500 + 20 * j, 300 + 30 * j, 100>>

Patterns == {"still", "steady", "uneven"}

\* Joint j in frame f (both from 0): at rest, moving by one step a frame,
\* or moving by steps that differ between frames and joints.
Position(pattern, f, j) ==
    CASE pattern = "still" -> Base(j)
      [] pattern = "steady" -> Plus(Base(j), <<10 * f, 10 * f, 5 * f>>)
      [] pattern = "uneven" ->
            Plus(Base(j), <<10 * f * f, 10 * f * (j % 3), 5 * f>>)

EntryAt(p) == Entry(p[1], p[2], p[3])

\* total entries, frame after frame of joints joints each.
Clip(joints, total, pattern) ==
    [k \in 1..total |->
        EntryAt(Position(pattern, (k - 1) \div joints, (k - 1) % joints))]

Kinds == {"short", "long", "junk"}

\* An entry with a field missing, a field too many, or a field that is no
\* number.
Spoil(s, kind) ==
    CASE kind = "short" -> <<s[1], s[2]>>
      [] kind = "long" -> <<s[1], s[2], s[3], NumberText(0)>>
      [] kind = "junk" -> <<s[1], OtherText, s[3]>>

Damage(entries, bad, kind) ==
    [i \in 1..Len(entries) |->
        IF i \in bad THEN Spoil(entries[i], kind) ELSE entries[i]]

KeyFramePatterns == {"xyz", "xy", "gaps"}

JointIndex(name) == CHOOSE j \in 1..Len(joint_names) : joint_names[j] = name

\* A frame dictionary: every joint with three coordinates, every joint with
\* two, or a few joints only, one of them empty and one unknown to the
\* extractor.
KeyFrame(pattern, f) ==
    CASE pattern = "xyz" ->
            [name \in {joint_names[j] : j \in 1..Len(joint_names)} |->
                Position("uneven", f, JointIndex(name) - 1)]
      [] pattern = "xy" ->
            [name \in {joint_names[j] : j \in 1..Len(joint_names)} |->
                SubSeq(Position("uneven", f, JointIndex(name) - 1), 1, 2)]
      [] pattern = "gaps" ->
            [name \in {"nose", "left_wrist", "left_hip", "tail"} |->
                IF name = "left_hip" THEN <<>>
                ELSE IF name = "tail" THEN <<1, 2, 3>>
                ELSE SubSeq(Position("steady", f, JointIndex(name) - 1), 1, 2)]

KeyFrames(pattern, n) == List([f \in 1..n |-> KeyFrame(pattern, f - 1)])

NoCall == [name |-> "none", args |-> <<>>, result |-> Returns(None, <<>>)]

-----------------------------------------------------------------------------
(* The rule-based predictor applied to feature vectors.                    *)

\* One value for every interval the thresholds of _rule_based_prediction cut
\* a feature's range into (a threshold itself where the interval holds it);
\* the entries the predictor never reads stay 0.
GridValues(i) ==
    CASE i = 0 -> {70, 80, 95, 100, 135, 140, 160}
      [] i = 1 -> {30, 40, 45, 50, 70}
      [] i = 2 -> {300, 400}
      [] i = 4 -> {10, 20, 25, 40, 50}
      [] i = 5 -> {-20, -10, -5}
      [] i = 6 -> {30, 40, 45}
      [] i = 7 -> {10, 15, 30, 40}
      [] i = 10 -> {50, 60, 70, 80}
      [] i = 11 -> {70, 80, 120, 125, 150, 160}
      [] OTHER -> {0}

\* outcome: what the loaded object did in a predict_emotion call ("raised",
\* "answered", or "not called" when the object is in fallback mode).
NoOp == [name |-> "none", handle |-> 0, path |-> "", raised |-> "none",
         calls |-> <<>>, log |-> <<>>, outcome |-> "none"]

NumHandles == 2

HandleIds == 1..NumHandles

-----------------------------------------------------------------------------
(* feature_extractor.py on doubles: recentring and the three differences.  *)
(*                                                                         *)
(* np.array(coords) holds float64.  A coordinate is a sign and a magnitude  *)
(* in units of 2^-56, as above; every coordinate of the clips below is a   *)
(* multiple of that unit, and so is every difference of two of them.       *)
(* A magnitude np.linalg.norm returns is kept as the term Norm64(v) and a   *)
(* mean as Mean(xs): both are 0 exactly when every component is.           *)

Signed(neg, mag) == [neg |-> neg /\ mag # DZero, mag |-> mag]

Double(mag) == Signed(FALSE, mag)

\* a + b in double arithmetic, for either sign; x + (-x) is +0.0.
FloatPlus(a, b) ==
    IF a.neg = b.neg
    THEN Signed(a.neg, FloatAdd(a.mag, b.mag))
    ELSE IF DLess(a.mag, b.mag)
    THEN Signed(b.neg, RoundSum(DSub(b.mag, a.mag)[1], DSub(b.mag, a.mag)[2]))
    ELSE Signed(a.neg, RoundSum(DSub(a.mag, b.mag)[1], DSub(a.mag, b.mag)[2]))

\* a + b, not rounded
ExactPlus(a, b) ==
    IF a.neg = b.neg
    THEN Signed(a.neg, DAddExact(a.mag, b.mag))
    ELSE IF DLess(a.mag, b.mag)
    THEN Signed(b.neg, DSub(b.mag, a.mag))
    ELSE Signed(a.neg, DSub(a.mag, b.mag))

\* a - b in double arithmetic
FloatMinus(a, b) == FloatPlus(a, Signed(~b.neg, b.mag))

\* A quotient <<s, qhi, qlo>> of 1/16 or more in units of 2^-56.
RECURSIVE Doubled(_, _)
Doubled(d, n) == IF n = 0 THEN d ELSE Doubled(DAddExact(d, d), n - 1)

InUnits(q) == Doubled(<<q[2], q[3]>>, 4 - q[1])

\* float("0.530"): the double nearest to n thousandths (n / 1000 in double
\* arithmetic is that double), for n from 63, the first that is 1/16 or
\* more, to 1000; entry k is for n = k + 62.
NearestDouble ==
    SubSeq([k \in 1..938 |->
              InUnits(FloatDiv(<<(k + 62) * 2097152, 0>>, <<2097152000, 0>>))],
           1, 938)

float(n) == Double(NearestDouble[n - 62])

\* x = 0.5 + frame_idx * 0.01 + joint_idx * 0.02, frame after frame
TestClipX ==
    <<<<134217728, 0>>, <<139586437, 32212256>>, <<144955146, 64424512>>,
      <<150323855, 96636768>>, <<155692564, 128849016>>,
      <<161061273, 161061272>>, <<166429982, 193273528>>,
      <<171798691, 225485784>>, <<177167400, 257698040>>,
      <<182536110, 21474832>>, <<187904819, 53687088>>,
      <<193273528, 85899344>>, <<198642237, 118111600>>,
      <<204010946, 150323856>>, <<209379655, 182536112>>,
      <<214748364, 214748368>>, <<220117073, 246960624>>,
      <<136902082, 150323856>>, <<142270791, 182536112>>,
      <<147639500, 214748368>>, <<153008209, 246960624>>,
      <<158376919, 10737416>>, <<163745628, 42949672>>,
      <<169114337, 75161928>>, <<174483046, 107374184>>,
      <<179851755, 139586440>>, <<185220464, 171798688>>,
      <<190589173, 204010944>>, <<195957882, 236223200>>, <<201326592, 0>>,
      <<206695301, 32212256>>, <<212064010, 64424512>>,
      <<217432719, 96636768>>, <<222801428, 128849024>>,
      <<139586437, 32212256>>, <<144955146, 64424512>>,
      <<150323855, 96636768>>, <<155692564, 128849024>>,
      <<161061273, 161061272>>, <<166429982, 193273528>>,
      <<171798691, 225485784>>, <<177167400, 257698040>>,
      <<182536110, 21474840>>, <<187904819, 53687088>>,
      <<193273528, 85899344>>, <<198642237, 118111600>>,
      <<204010946, 150323856>>, <<209379655, 182536112>>,
      <<214748364, 214748368>>, <<220117073, 246960624>>,
      <<225485783, 10737424>>, <<142270791, 182536112>>,
      <<147639500, 214748368>>, <<153008209, 246960624>>,
      <<158376919, 10737424>>, <<163745628, 42949672>>,
      <<169114337, 75161928>>, <<174483046, 107374184>>,
      <<179851755, 139586440>>, <<185220464, 171798696>>,
      <<190589173, 204010944>>, <<195957882, 236223200>>, <<201326592, 0>>,
      <<206695301, 32212256>>, <<212064010, 64424512>>,
      <<217432719, 96636768>>, <<222801428, 128849024>>,
      <<228170137, 161061280>>, <<144955146, 64424512>>,
      <<150323855, 96636768>>, <<155692564, 128849024>>,
      <<161061273, 161061280>>, <<166429982, 193273528>>,
      <<171798691, 225485784>>, <<177167400, 257698040>>,
      <<182536110, 21474840>>, <<187904819, 53687096>>,
      <<193273528, 85899344>>, <<198642237, 118111600>>,
      <<204010946, 150323856>>, <<209379655, 182536112>>,
      <<214748364, 214748368>>, <<220117073, 246960624>>,
      <<225485783, 10737424>>, <<230854492, 42949680>>>>

\* y = 0.3 + frame_idx * 0.01 + joint_idx * 0.03
TestClipY ==
    <<<<80530636, 214748364>>, <<88583700, 128849016>>,
      <<96636764, 42949672>>, <<104689827, 225485784>>,
      <<112742891, 139586436>>, <<120795955, 53687088>>,
      <<128849018, 236223200>>, <<136902082, 150323856>>,
      <<144955146, 64424512>>, <<153008209, 246960624>>,
      <<161061273, 161061272>>, <<169114337, 75161920>>,
      <<177167400, 257698032>>, <<185220464, 171798688>>,
      <<193273528, 85899344>>, <<201326592, 0>>, <<209379655, 182536112>>,
      <<83214991, 96636764>>, <<91268055, 10737416>>,
      <<99321118, 193273528>>, <<107374182, 107374184>>,
      <<115427246, 21474836>>, <<123480309, 204010944>>,
      <<131533373, 118111600>>, <<139586437, 32212256>>,
      <<147639500, 214748368>>, <<155692564, 128849024>>,
      <<163745628, 42949672>>, <<171798691, 225485776>>,
      <<179851755, 139586432>>, <<187904819, 53687088>>,
      <<195957882, 236223200>>, <<204010946, 150323856>>,
      <<212064010, 64424512>>, <<85899345, 246960620>>,
      <<93952409, 161061272>>, <<102005473, 75161928>>,
      <<110058536, 257698040>>, <<118111600, 171798692>>,
      <<126164664, 85899344>>, <<134217728, 0>>, <<142270791, 182536112>>,
      <<150323855, 96636768>>, <<158376919, 10737424>>,
      <<166429982, 193273528>>, <<174483046, 107374176>>,
      <<182536110, 21474832>>, <<190589173, 204010944>>,
      <<198642237, 118111600>>, <<206695301, 32212256>>,
      <<214748364, 214748368>>, <<88583700, 128849016>>,
      <<96636764, 42949672>>, <<104689827, 225485780>>,
      <<112742891, 139586432>>, <<120795955, 53687088>>,
      <<128849018, 236223200>>, <<136902082, 150323856>>,
      <<144955146, 64424504>>, <<153008209, 246960616>>,
      <<161061273, 161061272>>, <<169114337, 75161920>>,
      <<177167400, 257698032>>, <<185220464, 171798688>>,
      <<193273528, 85899344>>, <<201326592, 0>>, <<209379655, 182536104>>,
      <<217432719, 96636760>>, <<91268055, 10737416>>,
      <<99321118, 193273528>>, <<107374182, 107374180>>,
      <<115427246, 21474832>>, <<123480309, 204010944>>,
      <<131533373, 118111600>>, <<139586437, 32212256>>,
      <<147639500, 214748360>>, <<155692564, 128849016>>,
      <<163745628, 42949672>>, <<171798691, 225485776>>,
      <<179851755, 139586432>>, <<187904819, 53687088>>,
      <<195957882, 236223200>>, <<204010946, 150323856>>,
      <<212064010, 64424504>>, <<220117073, 246960616>>>>

\* z = 0.1 + frame_idx * 0.005
TestClipZ ==
    <<<<26843545, 161061274>>, <<28185722, 236223202>>,
      <<29527900, 42949673>>, <<30870077, 118111601>>,
      <<32212254, 193273529>>>>

\* The clip of test_predict_emotion_with_skeleton_data has 17 joints and 5
\* frames.
TestJoints == 17

TestFrames == 5

ClipKinds == {"computed", "decimal"}

\* Joint j of frame f (both from 0) as float() reads it from the entry:
\* "computed" is the test's clip, whose entries print the doubles the test
\* computes (0.5700000000000001 for frame 1, joint 3), "decimal" the same
\* positions written with three decimals (0.570).
DoublePosition(kind, f, j) ==
    IF kind = "computed"
    THEN <<Double(TestClipX[f * TestJoints + j + 1]),
           Double(TestClipY[f * TestJoints + j + 1]),
           Double(TestClipZ[f + 1])>>
    ELSE <<float(Position("steady", f, j)[1]),
           float(Position("steady", f, j)[2]),
           float(Position("steady", f, j)[3])>>

\* frames frames of joints joints each, as the entries of skeleton_data.
DoubleClip(kind, joints, frames) ==
    [k \in 1..(frames * joints) |->
        EntryAt(DoublePosition(kind, (k - 1) \div joints, (k - 1) % joints))]

Minus64(a, b) ==
    <<FloatMinus(a[1], b[1]), FloatMinus(a[2], b[2]), FloatMinus(a[3], b[3])>>

Plus64(a, b) ==
    <<FloatPlus(a[1], b[1]), FloatPlus(a[2], b[2]), FloatPlus(a[3], b[3])>>

\* A faulty recentring: the root is joint 0 of the first frame.
CentreOnFirstFrame(data) ==
    Array([f \in 1..Len(data) |->
            [j \in 1..Len(data[f]) |-> Minus64(data[f][j], data[1][1])]])

\* data - data[:, 0:1, :] on float64
root_centering64(data) ==
    Array([f \in 1..Len(data) |->
            [j \in 1..Len(data[f]) |-> Minus64(data[f][j], data[f][1])]])

\* A faulty difference: the earlier frame is not subtracted.
LaterFrames(a) ==
    Array([i \in 1..(Len(a) - 1) |-> [j \in 1..Len(a[i]) |-> a[i + 1][j]]])

\* np.diff(a, axis=0) on float64
np_diff64(a) ==
    Array([i \in 1..(Len(a) - 1) |->
            [j \in 1..Len(a[i]) |-> Minus64(a[i + 1][j], a[i][j])]])

\* np.linalg.norm of one float64 vector
Norm64(v) == [fn |-> "norm", of |-> v]

\* np.linalg.norm(a, axis=2) on float64
norm_axis2_64(a) ==
    Array([i \in 1..Len(a) |-> [j \in 1..Len(a[i]) |-> Norm64(a[i][j])]])

\* Lines 120 to 141: the three differences, their magnitudes, features[3]
\* and features[4].
Kinematics(velocity, acceleration, jerk) ==
    [velocity |-> velocity, acceleration |-> acceleration, jerk |-> jerk,
     vel_magnitude |-> norm_axis2_64(velocity),
     acc_magnitude |-> norm_axis2_64(acceleration),
     jerk_magnitude |-> norm_axis2_64(jerk),
     features |-> [i \in {3, 4} |->
        IF i = 3
        THEN IF Size(acceleration) > 0
             THEN Mean(Flatten(norm_axis2_64(acceleration))) ELSE Num(0)
        ELSE IF Size(jerk) > 0
             THEN Mean(Flatten(norm_axis2_64(jerk))) ELSE Num(0)]]

KinematicsFromAcceleration(velocity, acceleration) ==
    Kinematics(velocity, acceleration, np_diff64(acceleration))

KinematicsFromVelocity(velocity) ==
    KinematicsFromAcceleration(velocity, np_diff64(velocity))

\* Lines 110 to 141 of extract_features_from_skeleton on float64.
kinematics(skeleton, joints) ==
    IF parse_skeleton_data(skeleton, joints).raised # "none"
    THEN parse_skeleton_data(skeleton, joints)
    ELSE Returns(
           KinematicsFromVelocity(
             np_diff64(ensure_min_frames(
               root_centering64(parse_skeleton_data(skeleton, joints).value),
               MinFrames))),
           <<"parse_skeleton_data", "root_centering", "ensure_min_frames",
             "np.diff">>)

\* The offsets a caller may add to a frame: none, a quarter, minus a
\* sixteenth, a tenth.
NoOffset == <<Double(DZero), Double(DZero), Double(DZero)>>

Offsets ==
    {NoOffset,
     <<Double(D_0_25), Double(D_0_25), Double(D_0_25)>>,
     <<Signed(TRUE, <<16777216, 0>>), Signed(TRUE, <<16777216, 0>>),
       Signed(TRUE, <<16777216, 0>>)>>,
     <<float(100), float(100), float(100)>>}

\* Every frame moved by its own offset: frame f (from 1) by offsets[f].
Translated(data, offsets) ==
    Array([f \in 1..Len(data) |->
            [j \in 1..Len(data[f]) |-> Plus64(data[f][j], offsets[f])]])

-----------------------------------------------------------------------------
(* main.py: POST /predict_emotion.                                         *)
(*                                                                         *)
(* A JSON array is List(items), a JSON object Dict(fields); a request body *)
(* is a function from its keys to their values.  A status code and what    *)
(* the answer carries make a response.  Probabilities of the classifier    *)
(* and the confidence taken from them are in hundredths.                   *)

Dict(fields) == [type |-> "dict", fields |-> fields]

\* ran lists the steps of the handler that were reached, in order.
HTTPException(status_code, detail) ==
    [status_code |-> status_code, detail |-> detail, body |-> None,
     ran |-> <<>>]

\* The answer r, given after the steps before.
Ran(before, r) == [r EXCEPT !.ran = before \o @]

\* The validator of PredictionRequest, for one item of keypoints.
validate_keypoint_item(v) == v.type = "list" /\ Len(v.items) = 3

\* PredictionRequest: keypoints is required and is a list of lists of
\* numbers, each of which the validator accepts; other keys are ignored.
PredictionRequest(body) ==
    /\ "keypoints" \in DOMAIN body
    /\ body.keypoints.type = "list"
    /\ \A i \in 1..Len(body.keypoints.items) :
          validate_keypoint_item(body.keypoints.items[i])

\* request.dict(): the fields of the model, nothing else.
body_dict(body) == [k \in {"keypoints"} |-> body[k]]

\* Every name predict_emotion_endpoint assigns or defines is local to it
\* from its first line on, and bound only once the line that assigns or
\* defines it has run.
LocalBindings ==
    [request |-> 74, body_dict |-> 77, features |-> 81, expected |-> 86,
     extract_hcf_features |-> 93, extract_features_from_skeleton |-> 100,
     extract_features |-> 100, convert_keypoints_to_skeleton_data |-> 112,
     extract_hcf_features_from_request |-> 143]

Bound(name, line) == LocalBindings[name] < line

\* confidence_level as lines 214 to 219 set it.
confidence_level(confidence) ==
    IF confidence > 80 THEN "high"
    ELSE IF confidence > 50 THEN "medium"
    ELSE "low"

emotion_labels == <<"happy", "sad", "fear", "disgust", "angry", "neutral">>

\* np.argmax: the first index (from 0) of the largest entry.
np_argmax(xs) ==
    (CHOOSE i \in 1..Len(xs) :
        /\ \A j \in 1..Len(xs) : xs[j] <= xs[i]
        /\ \A j \in 1..(i - 1) : xs[j] < xs[i]) - 1

\* {label: float(prob) for label, prob in zip(emotion_labels, pred_probs)}
Zip(labels, probs) ==
    [l \in {labels[i] : i \in 1..Smaller(Len(labels), Len(probs))} |->
        probs[CHOOSE i \in 1..Len(labels) : labels[i] = l]]

\* An int that may be None: request_body.get("n_joints", None), and
\* `n if n is not None else default`.
Some(n) == [type |-> "int", value |-> n]

Get(d, key) == IF key \in DOMAIN d THEN Some(d[key]) ELSE None

OrElse(n, default) == IF n = None THEN default ELSE n.value

\* convert_keypoints_to_skeleton_data, on a list of [x, y, z] items
convert_keypoints_to_skeleton_data(kps, joints) ==
    IF Len(kps) % OrElse(joints, 13) # 0
    THEN Raises("ValueError", "divisible", <<Len(kps)>>, <<>>)
    ELSE Returns([k \in 1..Len(kps) |->
                    Entry(kps[k].items[1], kps[k].items[2], kps[k].items[3])],
                 <<>>)


ExtractConverted(converted, joints) ==
    IF converted.raised # "none"
    THEN converted
    ELSE extract_features_from_skeleton(converted.value, OrElse(joints, 13))

\* extract_hcf_features_from_request: skeleton_data first, then keypoints
\* as [x, y, z] items, then keypoints_dicts.
extract_hcf_features_from_request(request_body) ==
    IF "skeleton_data" \in DOMAIN request_body
           /\ Len(request_body.skeleton_data.items) > 0
    THEN extract_features_from_skeleton(
             request_body.skeleton_data.items,
             OrElse(Get(request_body, "n_joints"), 17))
    ELSE IF "keypoints" \in DOMAIN request_body
           /\ Len(request_body.keypoints.items) > 0
    THEN ExtractConverted(
             convert_keypoints_to_skeleton_data(request_body.keypoints.items,
                                                Get(request_body, "n_joints")),
             Get(request_body, "n_joints"))
    ELSE IF "keypoints_dicts" \in DOMAIN request_body
           /\ Len(request_body.keypoints_dicts.items) > 0
    THEN extract_features(request_body.keypoints_dicts)
    ELSE Raises("ValueError", "no input", <<>>, <<>>)

\* getattr(fusion_model, "n_features_in_", None)
expected(model) ==
    IF model.type = "classifier" THEN Some(model.n_features_in_) ELSE None

\* Lines 207 to 231: the prediction and the answer built from it.
Predicted(model, feats, out) ==
    IF ~model.has_predict_proba \/ out.raises
    THEN HTTPException(500, "prediction")
    ELSE IF np_argmax(out.proba) >= Len(emotion_labels)
    THEN HTTPException(500, "prediction")
    ELSE [status_code |-> 200, detail |-> "", ran |-> <<>>,
          body |-> [emotion |-> emotion_labels[np_argmax(out.proba) + 1],
                    confidence |-> out.proba[np_argmax(out.proba) + 1],
                    confidence_level |->
                        confidence_level(out.proba[np_argmax(out.proba) + 1]),
                    probabilities |-> Zip(emotion_labels, out.proba),
                    features |-> feats,
                    features_shape |-> <<1, 14>>,
                    message |-> "predicted"]]

\* Lines 82 to 200: what stands between the features and the prediction.
Checked(extracted, model, out) ==
    IF extracted.raised # "none"
    THEN HTTPException(422, "feature extraction")
    ELSE IF expected(model) # None /\ expected(model) # Some(14)
    THEN HTTPException(422, "feature dimension")
    ELSE Ran(<<"fusion_model is None">>,
             IF model = None
             THEN HTTPException(503, "model")
             ELSE Ran(<<"predict_proba">>,
                      Predicted(model, extracted.value, out)))

\* A faulty handler: the helper is defined before line 81 calls it.
HandleDefinedFirst(request_body, model, out) ==
    Ran(<<"extract_hcf_features_from_request">>,
        Checked(extract_hcf_features_from_request(request_body), model, out))

\* The body of the handler.  Line 81 calls extract_hcf_features_from_request
\* when line 143, which defines it, has not run: the UnboundLocalError is
\* caught on line 82 and answered with 422.
Handle(request_body, model, out) ==
    IF ~Bound("extract_hcf_features_from_request", 81)
    THEN Ran(<<"UnboundLocalError">>,
             HTTPException(422, "feature extraction"))
    ELSE Ran(<<"extract_hcf_features_from_request">>,
             Checked(extract_hcf_features_from_request(request_body), model,
                     out))

\* POST /predict_emotion: a body PredictionRequest rejects is answered with
\* 422 before the handler runs.
predict_emotion_endpoint(body, model, out) ==
    IF ~PredictionRequest(body)
    THEN HTTPException(422, "validation")
    ELSE Handle(body_dict(body), model, out)

\* The bodies posted: frames of named joints under keypoints (as
\* tests/test_api.py posts them), entry strings under skeleton_data with
\* n_joints = 17, [x, y, z] items under keypoints (whole frames of 13, with
\* or without one item more, or items of two numbers), and an empty object.
DictBody(pattern, n) ==
    [k \in {"keypoints"} |->
        List([f \in 1..n |-> Dict(KeyFrame(pattern, f - 1))])]

SkeletonBody(frames, pattern) ==
    [k \in {"skeleton_data", "n_joints"} |->
        IF k = "n_joints" THEN 17 ELSE List(Clip(17, frames * 17, pattern))]

Item(p, size) == List(SubSeq(p, 1, size))

FlatBody(total, pattern, size) ==
    [k \in {"keypoints"} |->
        List([i \in 1..total |->
                Item(Position(pattern, (i - 1) \div 13, (i - 1) % 13), size)])]

EmptyBody == [k \in {} |-> None]

Bodies ==
    {DictBody(pattern, n) : pattern \in KeyFramePatterns, n \in 0..MaxKeyFrames}
    \cup {SkeletonBody(frames, pattern) :
              frames \in 1..MaxFrames, pattern \in Patterns}
    \cup {FlatBody(frames * 13 + extra, pattern, size) :
              frames \in 0..2, extra \in 0..1, pattern \in Patterns,
              size \in 2..3}
    \cup {EmptyBody}

\* What the import of main.py leaves in fusion_model: None when joblib.load
\* fails, or the object loaded.
FusionModels ==
    {None, Classifier(TRUE, 14), Classifier(FALSE, 14), Classifier(TRUE, 10)}

-----------------------------------------------------------------------------
(* Calls into feature_extractor.py.                                        *)

IdleModel ==
    /\ features = ZeroVector
    /\ result = NoResult
    /\ handles = [h \in HandleIds |-> NoHandle]
    /\ op = NoOp
    /\ returned = {}

IdleExtract ==
    /\ skeleton_data = <<>>
    /\ n_joints = 17
    /\ keypoints = None
    /\ call = NoCall

NoRequest == [sent |-> FALSE]

NoResponse == [status_code |-> 0]

\* No POST has been made; main.py's import found no model file.
IdleApi ==
    /\ request = NoRequest
    /\ fusion_model = None
    /\ response = NoResponse

ThreadIds == HandleIds

\* A thread outside get_model and predict_emotion: pc is the line of
\* get_model it is about to run, local the object it has built and not yet
\* stored, got the instances its calls have received so far.
IdleThread ==
    [pc |-> "idle", fn |-> "none", path |-> "", local |-> 0, calls |-> 0,
     got |-> <<>>]

\* model.py has been imported and nothing has called get_model.
IdleSingleton ==
    /\ model_instance = None
    /\ threads = [t \in ThreadIds |-> IdleThread]

InitExtract ==
    /\ IdleModel
    /\ IdleApi
    /\ IdleSingleton
    /\ call = NoCall
    /\ \/ /\ keypoints = None
          /\ \E joints \in 1..MaxJoints, frames \in 0..MaxFrames,
                extra \in 0..MaxExtra, pattern \in Patterns,
                bad \in SUBSET {1, 2}, kind \in Kinds :
                /\ extra < joints
                /\ bad \subseteq 1..(frames * joints + extra)
                /\ n_joints = joints
                /\ skeleton_data =
                      Damage(Clip(joints, frames * joints + extra, pattern),
                             bad, kind)
       \/ /\ skeleton_data = <<>>
          /\ n_joints = 17
          /\ \E pattern \in KeyFramePatterns, n \in 0..MaxKeyFrames :
                keypoints = KeyFrames(pattern, n)

\* extract_features_from_skeleton(skeleton_data, n_joints)
ExtractFromSkeleton ==
    /\ call' = [name |-> "extract_features_from_skeleton", args |-> <<>>,
                result |-> extract_features_from_skeleton(skeleton_data, n_joints)]
    /\ UNCHANGED <<modelVars, skeleton_data, n_joints, keypoints, apiVars,
                   singletonVars>>

\* parse_skeleton_data(skeleton_data, n_joints)
ParseSkeletonData ==
    /\ call' = [name |-> "parse_skeleton_data", args |-> <<>>,
                result |-> parse_skeleton_data(skeleton_data, n_joints)]
    /\ UNCHANGED <<modelVars, skeleton_data, n_joints, keypoints, apiVars,
                   singletonVars>>

\* extract_features(keypoints)
ExtractFeatures ==
    /\ call' = [name |-> "extract_features", args |-> <<>>,
                result |-> extract_features(keypoints)]
    /\ UNCHANGED <<modelVars, skeleton_data, n_joints, keypoints, apiVars,
                   singletonVars>>

Pad(data, m) ==
    call' = [name |-> "ensure_min_frames", args |-> <<data, m>>,
             result |-> Returns(ensure_min_frames(data, m),
                                <<"ensure_min_frames">>)]

\* ensure_min_frames(data, m) on the array the entries parse to
EnsureMinFrames(m) ==
    /\ parse_skeleton_data(skeleton_data, n_joints).raised = "none"
    /\ Pad(parse_skeleton_data(skeleton_data, n_joints).value, m)
    /\ UNCHANGED <<modelVars, skeleton_data, n_joints, keypoints, apiVars,
                   singletonVars>>

NextExtract ==
    \/ ParseSkeletonData
    \/ ExtractFromSkeleton
    \/ ExtractFeatures
    \/ \E m \in 1..MaxMinFrames : EnsureMinFrames(m)

SpecExtract == InitExtract /\ [][NextExtract]_vars

-----------------------------------------------------------------------------
(* The rule-based predictor run over the grid.                             *)

InitRule ==
    /\ \E f0 \in GridValues(0), f1 \in GridValues(1), f2 \in GridValues(2),
          f4 \in GridValues(4), f5 \in GridValues(5), f6 \in GridValues(6),
          f7 \in GridValues(7), f10 \in GridValues(10), f11 \in GridValues(11) :
          features = Vector(<<f0, f1, f2, 0, f4, f5, f6, f7, 0, 0, f10, f11, 0, 0>>)
    /\ result = NoResult
    /\ handles = [h \in HandleIds |-> NoHandle]
    /\ op = NoOp
    /\ returned = {}
    /\ IdleExtract
    /\ IdleApi
    /\ IdleSingleton

PredictRule ==
    /\ result = NoResult
    /\ result' = RuleBasedPrediction(features)
    /\ UNCHANGED <<features, handles, op, returned, extractVars, apiVars,
                   singletonVars>>

SpecRule == InitRule /\ [][PredictRule]_vars

-----------------------------------------------------------------------------
(* EmotionModel objects: construction and predict_emotion calls.           *)

\* tests/test_model.py, test_multiple_predictions
TestFeatures ==
    Vector(<<120, 50, 280, 30, 40, 0, 50, 30, 100, 80, 70, 120, 60, 90>>)

SlowFeatures ==
    Vector(<<70, 30, 200, 0, 10, -20, 30, 10, 0, 0, 50, 70, 0, 0>>)

CallVectors == {TestFeatures, DefaultFeatures, SlowFeatures}

InitModel == IdleModel /\ IdleExtract /\ IdleApi /\ IdleSingleton

\* model = EmotionModel(path)
Construct(h, path) ==
    /\ ~handles[h].constructed
    /\ LET r == EmotionModelInit(path)
       IN  /\ handles' = [handles EXCEPT
                             ![h] = IF r.raised = "none" THEN r.attrs ELSE @]
           /\ op' = [name |-> "construct", handle |-> h, path |-> path,
                     raised |-> r.raised, calls |-> <<"_load_model">>,
                     log |-> r.log, outcome |-> "none"]
    /\ UNCHANGED <<features, result, returned, extractVars, apiVars,
                   singletonVars>>

\* model.predict_emotion(f)
Return(h, f, out, r) ==
    /\ result' = r.result
    /\ handles' = [handles EXCEPT ![h] = r.attrs]
    /\ op' = [name |-> "predict", handle |-> h, path |-> "",
              raised |-> r.raised, calls |-> r.calls, log |-> r.log,
              outcome |-> IF handles[h].use_fallback THEN "not called"
                          ELSE IF out.raises THEN "raised" ELSE "answered"]
    /\ returned' = IF handles[h].use_fallback
                   THEN returned \cup {<<h, f, r.result>>}
                   ELSE returned

Predict(h, f) ==
    /\ handles[h].constructed
    /\ \E out \in IF handles[h].model.type = "classifier"
                    THEN ClassifierOutcomes(handles[h].model, f)
                    ELSE {[raises |-> TRUE]} :
          Return(h, f, out, PredictEmotion(handles[h], f, out))
    /\ features' = f
    /\ UNCHANGED <<extractVars, apiVars, singletonVars>>

NextModel ==
    \/ \E h \in HandleIds, path \in Paths : Construct(h, path)
    \/ \E h \in HandleIds, f \in CallVectors : Predict(h, f)

SpecModel == InitModel /\ [][NextModel]_vars

-----------------------------------------------------------------------------
(* main.py: requests to the endpoint, and the confidence tiers.            *)

InitApi ==
    /\ IdleModel
    /\ IdleExtract
    /\ IdleSingleton
    /\ request = NoRequest
    /\ response = NoResponse
    /\ fusion_model \in FusionModels

\* One POST /predict_emotion.
Post(body) ==
    /\ request' = [sent |-> TRUE, body |-> body]
    /\ \E out \in IF fusion_model.type = "classifier"
                    THEN ClassifierOutcomes(fusion_model, ZeroVector)
                    ELSE {[raises |-> TRUE]} :
          response' = predict_emotion_endpoint(body, fusion_model, out)
    /\ UNCHANGED <<modelVars, extractVars, fusion_model, singletonVars>>

NextApi == \E body \in Bodies : Post(body)

SpecApi == InitApi /\ [][NextApi]_vars

\* Confidences from 0.00 to 1.00.
Confidences == 0..100

InitTier == IdleModel /\ IdleExtract /\ IdleApi /\ IdleSingleton

\* Lines 213 to 219 for one confidence.
Tier(confidence) ==
    /\ response' = [status_code |-> 200, detail |-> "",
                    body |-> [confidence |-> confidence,
                              confidence_level |-> confidence_level(confidence)]]
    /\ UNCHANGED <<modelVars, extractVars, request, fusion_model,
                   singletonVars>>

NextTier == \E confidence \in Confidences : Tier(confidence)

SpecTier == InitTier /\ [][NextTier]_vars

-----------------------------------------------------------------------------
(* model.py: get_model and the module-level predict_emotion, called from   *)
(* several threads.  The interpreter may switch threads between the test   *)
(* of line 282, the construction and the store of line 283, and the load   *)
(* of line 284; nothing in model.py takes a lock.                          *)

MaxCallsPerThread == 2

InitSingleton == IdleModel /\ IdleExtract /\ IdleApi /\ IdleSingleton

\* The objects EmotionModel(...) has built so far.
Constructed == {h \in HandleIds : handles[h].constructed}

\* A thread calls get_model(path), or predict_emotion(f, path) which calls
\* get_model(path) on line 298.
CallGetModel(t, fn, path) ==
    /\ threads[t].pc = "idle"
    /\ threads[t].calls < MaxCallsPerThread
    /\ threads' = [threads EXCEPT ![t] = [@ EXCEPT !.pc = "282", !.fn = fn,
                                                   !.path = path,
                                                   !.calls = @ + 1]]
    /\ UNCHANGED <<modelVars, extractVars, apiVars, model_instance>>

\* Line 282: if _model_instance is None
TestInstance(t) ==
    /\ threads[t].pc = "282"
    /\ threads' = [threads EXCEPT ![t].pc =
                      IF model_instance = None THEN "283" ELSE "284"]
    /\ UNCHANGED <<modelVars, extractVars, apiVars, model_instance>>

\* Line 283, right-hand side: EmotionModel(model_path)
ConstructInstance(t) ==
    /\ threads[t].pc = "283"
    /\ LET h == CHOOSE free \in HandleIds \ Constructed :
                    \A other \in HandleIds \ Constructed : free <= other
           r == EmotionModelInit(threads[t].path)
       IN  /\ handles' = [handles EXCEPT ![h] = r.attrs]
           /\ op' = [name |-> "construct", handle |-> h,
                     path |-> threads[t].path, raised |-> r.raised,
                     calls |-> <<"_load_model">>, log |-> r.log,
                     outcome |-> "none"]
           /\ threads' = [threads EXCEPT ![t] = [@ EXCEPT !.pc = "283 store",
                                                          !.local = h]]
    /\ UNCHANGED <<features, result, returned, extractVars, apiVars,
                   model_instance>>

\* Line 283, the store: _model_instance = <the new object>
StoreInstance(t) ==
    /\ threads[t].pc = "283 store"
    /\ model_instance' = Some(threads[t].local)
    /\ threads' = [threads EXCEPT ![t] = [@ EXCEPT !.pc = "284", !.local = 0]]
    /\ UNCHANGED <<modelVars, extractVars, apiVars>>

\* Line 284: return _model_instance.  get_model's caller has its instance;
\* predict_emotion goes on to line 299 with it.
ReturnInstance(t) ==
    /\ threads[t].pc = "284"
    /\ threads' = [threads EXCEPT ![t] =
                      [@ EXCEPT !.pc = IF threads[t].fn = "predict_emotion"
                                       THEN "299" ELSE "idle",
                                !.got = Append(@, model_instance.value)]]
    /\ UNCHANGED <<modelVars, extractVars, apiVars, model_instance>>

\* Line 299: return model.predict_emotion(features)
PredictWithInstance(t, f) ==
    /\ threads[t].pc = "299"
    /\ LET h == threads[t].got[Len(threads[t].got)]
       IN  \E out \in IF handles[h].model.type = "classifier"
                       THEN ClassifierOutcomes(handles[h].model, f)
                       ELSE {[raises |-> TRUE]} :
              Return(h, f, out, PredictEmotion(handles[h], f, out))
    /\ features' = f
    /\ threads' = [threads EXCEPT ![t].pc = "idle"]
    /\ UNCHANGED <<extractVars, apiVars, model_instance>>

\* The paths and the vector the threads call with.
SingletonPaths == {"missing", "legacy"}

SingletonVectors == {TestFeatures}

NextSingleton ==
    \/ \E t \in ThreadIds, fn \in {"get_model", "predict_emotion"},
          path \in SingletonPaths : CallGetModel(t, fn, path)
    \/ \E t \in ThreadIds : TestInstance(t)
    \/ \E t \in ThreadIds : ConstructInstance(t)
    \/ \E t \in ThreadIds : StoreInstance(t)
    \/ \E t \in ThreadIds : ReturnInstance(t)
    \/ \E t \in ThreadIds, f \in SingletonVectors : PredictWithInstance(t, f)

SpecSingleton == InitSingleton /\ [][NextSingleton]_vars

-----------------------------------------------------------------------------
(* feature_extractor.py on doubles: the test's clip, recentred and         *)
(* differentiated, as it is and with its frames moved.                     *)

InitKinematics ==
    /\ IdleModel
    /\ IdleApi
    /\ IdleSingleton
    /\ call = NoCall
    /\ keypoints = None
    /\ \E kind \in ClipKinds, joints \in 1..TestJoints, frames \in 1..TestFrames :
          /\ n_joints = joints
          /\ skeleton_data = DoubleClip(kind, joints, frames)

\* Lines 110 to 141 of extract_features_from_skeleton(skeleton_data, n_joints)
ExtractKinematics ==
    /\ call' = [name |-> "kinematics", args |-> <<>>,
                result |-> kinematics(skeleton_data, n_joints)]
    /\ UNCHANGED <<modelVars, skeleton_data, n_joints, keypoints, apiVars,
                   singletonVars>>

\* Odd frames moved by t and even frames by u.
TakingTurns(data, t, u) ==
    [f \in 1..Len(data) |-> IF f % 2 = 1 THEN t ELSE u]

Recentre(data, offsets) ==
    call' = [name |-> "root_centering", args |-> <<offsets>>,
             result |-> Returns(root_centering64(Translated(data, offsets)),
                                <<"root_centering">>)]

\* root_centering(data + offsets), data being the array the entries parse to
RootCentering(t, u) ==
    /\ parse_skeleton_data(skeleton_data, n_joints).raised = "none"
    /\ Recentre(parse_skeleton_data(skeleton_data, n_joints).value,
                TakingTurns(parse_skeleton_data(skeleton_data, n_joints).value,
                            t, u))
    /\ UNCHANGED <<modelVars, skeleton_data, n_joints, keypoints, apiVars,
                   singletonVars>>

NextKinematics ==
    \/ ExtractKinematics
    \/ \E t, u \in Offsets : RootCentering(t, u)

SpecKinematics == InitKinematics /\ [][NextKinematics]_vars

-----------------------------------------------------------------------------
(* Properties of the rule-based predictor and of EmotionModel.             *)

\* A probability num/den with 0 <= num <= den and den > 0: division rounds
\* monotonically and 0/den = 0, den/den = 1, so the double lies in [0, 1].
InUnit(p) == DLeq(DZero, p[1]) /\ DLeq(p[1], p[2]) /\ DLess(DZero, p[2])

\* The exact sum of the dividends of a probabilities map.
DividendSum(p) ==
    DAddExact(DAddExact(DAddExact(DAddExact(DAddExact(
        p["Happy"][1], p["Sad"][1]), p["Fear"][1]), p["Disgust"][1]),
        p["Angry"][1]), p["Neutral"][1])

Distance(a, b) == IF DLess(a, b) THEN DSub(b, a) ELSE DSub(a, b)

\* 100 * |a - b| <= b, for b stored with 28 low bits to spare.
WithinHundredth(a, b) ==
    /\ Distance(a, b)[1] = 0
    /\ Distance(a, b)[2] < Limb \div 256
    /\ 100 * Distance(a, b)[2] <= b[1]

\* Every value is a quotient by one divisor, and the dividends add up to the
\* divisor within a hundredth of it.  (The six roundings of the quotients
\* add at most 6 * 2^-53 to the distance of the sum from 1.)
SumsToOne(p) ==
    /\ \A e \in DOMAIN p : p[e][2] = p["Neutral"][2]
    /\ WithinHundredth(DividendSum(p), p["Neutral"][2])

\* C1: a rule-based prediction carries probabilities for exactly the six
\* categories Happy, Sad, Fear, Disgust, Angry and Neutral, each in [0, 1],
\* and they sum to 1 within 0.01.
C1_SixProbabilitiesSumToOne ==
    result.status = "ok" =>
        /\ DOMAIN result.probabilities =
              {"Happy", "Sad", "Fear", "Disgust", "Angry", "Neutral"}
        /\ \A e \in DOMAIN result.probabilities : InUnit(result.probabilities[e])
        /\ SumsToOne(result.probabilities)

\* C1 happens where rounding shows: a prediction whose dividends do not add
\* up to the divisor exactly.
C1_RoundedSumReached ==
    /\ result.status = "ok"
    /\ DividendSum(result.probabilities) # result.probabilities["Neutral"][2]

FirstLargest(p, k) ==
    /\ \A j \in 1..6 : ~QuotLess(p[EMOTION_CLASSES[k]], p[EMOTION_CLASSES[j]])
    /\ \A j \in 1..(k - 1) : QuotLess(p[EMOTION_CLASSES[j]], p[EMOTION_CLASSES[k]])

\* C17: the emotion the rule-based strategy returns has a probability that
\* none of the six exceeds, and of the categories with that probability it is
\* the first in the order Happy, Sad, Fear, Disgust, Angry, Neutral; the
\* confidence is that probability.
C17_FirstOfTheLargestReturned ==
    result.status = "ok" =>
        /\ result.emotion \in Emotions
        /\ result.confidence = result.probabilities[result.emotion]
        /\ FirstLargest(result.probabilities, KeyIndex(result.emotion))

\* C17 happens when Sad and Disgust share the largest probability and Sad,
\* the earlier of the two, has been returned.
C17_TieAtTheTopReached ==
    /\ result.status = "ok"
    /\ result.emotion = "Sad"
    /\ ~QuotLess(result.probabilities["Disgust"], result.probabilities["Sad"])

\* C18: the total score is at least 0.5 for every vector, as Neutral scores
\* 0.5 and no score is negative; Neutral's probability is 0.5 / total, which
\* is more than 0 (a quotient of two positive doubles of this size is), and
\* the probabilities are never the uniform ones of the branch for a total
\* that is not positive.
C18_NeutralKeepsTotalPositive ==
    result.status = "ok" =>
        /\ DLeq(D_0_5, total_score(Scores(features)))
        /\ \A i \in 1..6 : DLeq(DZero, Scores(features)[i])
        /\ result.probabilities["Neutral"] = <<D_0_5, total_score(Scores(features))>>
        /\ DLess(DZero, result.probabilities["Neutral"][1])
        /\ DLess(DZero, result.probabilities["Neutral"][2])
        /\ \A e \in Emotions : result.probabilities[e] # Uniform

\* C18 happens when no rule fires: the total is Neutral's 0.5 alone.
C18_OnlyNeutralScoresReached ==
    /\ result.status = "ok"
    /\ \A e \in Emotions \ {"Neutral"} : result.probabilities[e][1] = DZero
    /\ result.confidence = <<D_0_5, D_0_5>>
    /\ result.emotion = "Neutral"

\* C5: a handle built from a path with no file has use_fallback = True and
\* model = None, and predict_emotion on it answers, by the rules alone, with
\* emotion, confidence and probabilities.
C5_MissingFileFallsBack ==
    \A h \in HandleIds :
        (handles[h].constructed /\ handles[h].model_path = "missing") =>
            /\ handles[h].use_fallback = TRUE
            /\ handles[h].model = None
            /\ (op.name = "predict" /\ op.handle = h) =>
                  /\ op.raised = "none"
                  /\ op.calls = <<"_rule_based_prediction">>
                  /\ {"emotion", "confidence", "probabilities"} \subseteq DOMAIN result
                  /\ result.emotion \in Emotions

\* C5 happens when a handle built from the missing path has predicted.
C5_MissingFilePredictReached ==
    /\ op.name = "predict"
    /\ handles[op.handle].model_path = "missing"
    /\ result.status = "ok"

\* C6: constructing an EmotionModel never raises, whatever the load does,
\* and when the file is absent or joblib.load raised the handle is in
\* fallback mode.
C6_ConstructorNeverRaises ==
    op.name = "construct" =>
        /\ op.raised = "none"
        /\ handles[op.handle].constructed
        /\ op.path \in {"missing", "corrupt"} => handles[op.handle].use_fallback = TRUE

\* C6 happens when a file that joblib.load fails on has been given.
C6_LoadFailureReached ==
    /\ op.name = "construct"
    /\ op.path = "corrupt"
    /\ handles[op.handle].use_fallback = TRUE

\* C7 as stated: a persisted dictionary without the key 'model' leaves the
\* handle in fallback mode, and predict_emotion answers by the rules.
C7_BundleWithoutModelFallsBack ==
    \A h \in HandleIds :
        (handles[h].constructed /\ handles[h].model_path = "bundle_nomodel") =>
            /\ handles[h].use_fallback = TRUE
            /\ (op.name = "predict" /\ op.handle = h) =>
                  "_rule_based_prediction" \in {op.calls[i] : i \in 1..Len(op.calls)}

\* C8 as stated: a bare classifier gives a handle with model set,
\* use_fallback = False, scaler = None and label_encoder = None, and
\* predict_emotion answers from the classifier.
C8_LegacyHandleHasNoScaler ==
    \A h \in HandleIds :
        (handles[h].constructed /\ handles[h].model_path = "legacy") =>
            /\ handles[h].model.type = "classifier"
            /\ handles[h].use_fallback = FALSE
            /\ {"scaler", "label_encoder"} \subseteq Attributes(handles[h])
            /\ handles[h].scaler = None
            /\ handles[h].label_encoder = None
            /\ (op.name = "predict" /\ op.handle = h) =>
                  op.calls = <<"_model_based_prediction">>

\* C11 as stated: the tier is high from a confidence of 0.5, medium from
\* 0.3 up to 0.5, and low below 0.3.
C11_TiersAtHalfAndThreeTenths ==
    response.status_code = 200 =>
        response.body.confidence_level =
            IF response.body.confidence >= 50 THEN "high"
            ELSE IF response.body.confidence >= 30 THEN "medium"
            ELSE "low"

\* The request holds two frames or more in one of the two forms the tests
\* post: named joints frame by frame, or entry strings with n_joints = 17.
TwoFramesOrMore ==
    /\ request.sent
    /\ \/ /\ DOMAIN request.body = {"keypoints"}
          /\ Len(request.body.keypoints.items) >= 2
          /\ \A i \in 1..Len(request.body.keypoints.items) :
                request.body.keypoints.items[i].type = "dict"
       \/ /\ DOMAIN request.body = {"skeleton_data", "n_joints"}
          /\ request.body.n_joints = 17
          /\ Len(request.body.skeleton_data.items) >= 2 * 17
          /\ Len(request.body.skeleton_data.items) % 17 = 0

\* C13 as stated: a well-formed request of two frames or more is answered
\* with 200 and a body holding emotion, confidence, confidence_level,
\* probabilities, message and 14 features.
C13_WellFormedRequestAnswered ==
    TwoFramesOrMore =>
        /\ response.status_code = 200
        /\ {"emotion", "confidence", "confidence_level", "probabilities",
            "message", "features"} \subseteq DOMAIN response.body
        /\ response.body.confidence_level \in {"high", "medium", "low"}
        /\ DOMAIN response.body.features = 0..13

\* C20 as stated: over every interleaving of get_model and predict_emotion
\* calls from several threads at most one EmotionModel is constructed, and
\* every caller receives the same instance.
C20_OneInstanceForAll ==
    /\ Cardinality(Constructed) <= 1
    /\ \A t, u \in ThreadIds :
          \A i \in 1..Len(threads[t].got), j \in 1..Len(threads[u].got) :
             threads[t].got[i] = threads[u].got[j]

\* C15: when the object is not in fallback mode and the model strategy
\* raises during a call (the loaded object is None, is a dictionary without
\* predict, rejects the number of features, or fails in predict or
\* predict_proba), predict_emotion raises nothing and returns exactly what
\* _rule_based_prediction returns for the same vector.
C15_ModelFailureAnsweredByRules ==
    (op.name = "predict" /\ op.outcome = "raised") =>
        /\ op.raised = "none"
        /\ result = RuleBasedPrediction(features)

\* C15 happens when a classifier fitted on 10 features has been handed 14.
C15_WrongDimensionReached ==
    /\ op.name = "predict"
    /\ op.outcome = "raised"
    /\ handles[op.handle].model_path = "legacy_10d"
    /\ handles[op.handle].use_fallback = FALSE
    /\ result.status = "ok"

\* C16: predict_emotion leaves model_path, model and use_fallback of every
\* object as they were and never runs _load_model again: an object in
\* fallback mode stays there, and an object with a loaded model keeps
\* use_fallback = False even over a call the rules had to answer.
C16_PredictLeavesHandleAlone ==
    [][op'.name = "predict" =>
          /\ handles' = handles
          /\ \A i \in 1..Len(op'.calls) : op'.calls[i] # "_load_model"]_vars

\* C16 happens when a loaded classifier has raised in a call and the object
\* still holds it, out of fallback mode.
C16_FailedCallKeepsModelReached ==
    /\ op.name = "predict"
    /\ op.outcome = "raised"
    /\ op.log = <<"error">>
    /\ handles[op.handle].model_path = "legacy"
    /\ handles[op.handle].use_fallback = FALSE
    /\ handles[op.handle].model = Classifier(TRUE, 14)

-----------------------------------------------------------------------------
(* Properties of the feature extractor.                                    *)

\* The entries handed over are all of the form "x,y,z" with numbers.
WellFormed == \A i \in 1..Len(skeleton_data) : Parses(skeleton_data[i])

FromSkeletonCalled == call.name = "extract_features_from_skeleton"

\* C3 as stated: for well-formed entries making two or more whole frames,
\* with any joint count from 1 up, extract_features_from_skeleton raises
\* nothing and returns 14 numbers.
C3_AlwaysFourteenFeatures ==
    (/\ FromSkeletonCalled
     /\ WellFormed
     /\ Len(skeleton_data) % n_joints = 0
     /\ Len(skeleton_data) \div n_joints >= 2) =>
        /\ call.result.raised = "none"
        /\ DOMAIN call.result.value = 0..13

\* C4: extract_features given None, an empty list or a single frame raises
\* nothing and returns the default vector 1.0, 0.5, 2.0, 0.1, 0.3, 0.0, 0.5,
\* 0.2, 0.1, 0.05, 0.8, 1.0, 0.5, 0.3 (here in hundredths) without calling
\* the parser or anything after it, whatever the frame holds.
C4_FewFramesGiveDefault ==
    (/\ call.name = "extract_features"
     /\ (keypoints.type = "NoneType" \/ Len(keypoints.items) <= 1)) =>
        /\ call.result.raised = "none"
        /\ call.result.calls = <<>>
        /\ call.result.value =
              Vector(<<100, 50, 200, 10, 30, 0, 50, 20, 10, 5, 80, 100, 50, 30>>)

\* C4 happens when extract_features was given one frame that names joints.
C4_SingleFrameReached ==
    /\ call.name = "extract_features"
    /\ keypoints.type = "list"
    /\ Len(keypoints.items) = 1
    /\ "nose" \in DOMAIN keypoints.items[1]
    /\ call.result.raised = "none"

Rejected(site) ==
    /\ call.result.raised = "ValueError"
    /\ call.result.site = site
    /\ call.result.value = None

\* C12: parse_skeleton_data fails on the first entry, from the front, that
\* does not split into exactly three numbers: a ValueError naming that
\* entry's index (from 0) and the entry itself, raised whatever the frame
\* count or the shape would have been, and no array is returned.
\* extract_features_from_skeleton lets the same error through.
C12_FirstBadEntryNamed ==
    call.name \in {"parse_skeleton_data", "extract_features_from_skeleton"} =>
        \A i \in 1..Len(skeleton_data) :
            (~Parses(skeleton_data[i])
                /\ \A k \in 1..(i - 1) : Parses(skeleton_data[k])) =>
                /\ call.result.raised = "ValueError"
                /\ call.result.site = "entry"
                /\ call.result.detail = <<i - 1, skeleton_data[i]>>
                /\ call.result.value = None

\* C12 happens when the first two entries are both bad and there are too
\* few entries for one frame: the first is the one named.
C12_TwoBadEntriesReached ==
    /\ call.name = "parse_skeleton_data"
    /\ Len(skeleton_data) >= 2
    /\ Len(skeleton_data) < n_joints
    /\ ~Parses(skeleton_data[1])
    /\ ~Parses(skeleton_data[2])
    /\ call.result.detail = <<0, skeleton_data[1]>>

\* C9 as stated: whenever the number of (well-formed) entries is no multiple
\* of n_joints, extraction fails with numpy's shape error and returns no
\* vector.
C9_ShapeErrorWhenNotMultiple ==
    (/\ FromSkeletonCalled
     /\ WellFormed
     /\ Len(skeleton_data) % n_joints # 0) => Rejected("reshape")

\* C9, amended: when the number of well-formed entries is no multiple of
\* n_joints, extraction raises a ValueError and returns no vector, so no
\* entry is dropped silently: the shape error of reshape when there are more
\* than n_joints entries, the too-little-data error of the frame count check
\* when there are fewer.
C9_RejectedWhenNotMultiple ==
    (/\ FromSkeletonCalled
     /\ WellFormed
     /\ Len(skeleton_data) % n_joints # 0) =>
        IF Len(skeleton_data) > n_joints
        THEN Rejected("reshape")
        ELSE Rejected("n_frames")

\* C9 happens for 10 entries with n_joints = 3.
C9_TenEntriesThreeJointsReached ==
    /\ FromSkeletonCalled
    /\ WellFormed
    /\ Len(skeleton_data) = 10
    /\ n_joints = 3
    /\ call.result.site = "reshape"

\* The result out of padding data to m frames: m - F copies of frame 0, then
\* the F frames in their order.
PaddedInFront(data, m, out) ==
    /\ Len(out) = m
    /\ \A i \in 1..(m - Len(data)) : out[i] = data[1]
    /\ \A i \in 1..Len(data) : out[m - Len(data) + i] = data[i]

\* C10: ensure_min_frames(data, m) on F < m frames returns m frames, m - F
\* copies of frame 0 followed by the F frames in order; on F >= m frames it
\* returns them unchanged.  (data is any array the parser returns, so F >= 1.)
C10_PaddingPrependsFirstFrame ==
    call.name = "ensure_min_frames" =>
        IF Len(call.args[1]) < call.args[2]
        THEN PaddedInFront(call.args[1], call.args[2], call.result.value)
        ELSE call.result.value = call.args[1]

\* C10 happens when two frames that differ were padded to four.
C10_TwoFramesPaddedReached ==
    /\ call.name = "ensure_min_frames"
    /\ Len(call.args[1]) = 2
    /\ call.args[1][1] # call.args[1][2]
    /\ call.args[2] = 4
    /\ Len(call.result.value) = 4

\* The test's clip, 17 joints by 5 frames, has gone through lines 110 to 141.
TestClipDifferentiated ==
    /\ call.name = "kinematics"
    /\ call.result.raised = "none"
    /\ n_joints = TestJoints
    /\ Len(skeleton_data) = TestJoints * TestFrames

ZeroVector3(v) == \A k \in 1..3 : v[k].mag = DZero

\* A magnitude or a mean of magnitudes is 0.
IsZero(t) ==
    CASE t.fn = "norm" -> ZeroVector3(t.of)
      [] t.fn = "mean" -> \A i \in 1..Len(t.of) : ZeroVector3(t.of[i].of)
      [] OTHER -> t.of = 0

\* The components are rounding errors: at most 2^-52 in absolute value.
Noise(v) == \A k \in 1..3 : v[k].mag[1] = 0 /\ v[k].mag[2] <= 16

AllNoise(a) == \A i \in 1..Len(a) : \A j \in 1..Len(a[i]) : Noise(a[i][j])

\* The square of the magnitude of a vector of rounding errors, in units of
\* 2^-112.
SquareSum(v) ==
    v[1].mag[2] * v[1].mag[2] + v[2].mag[2] * v[2].mag[2]
      + v[3].mag[2] * v[3].mag[2]

\* Every joint has the same velocity magnitude over every frame gap.
ConstantSpeed(velocity) ==
    \A j \in 1..Len(velocity[1]) : \A g, h \in 1..Len(velocity) :
       SquareSum(velocity[g][j]) = SquareSum(velocity[h][j])

\* C14 as stated: for the clip of 17 joints and 5 frames whose coordinates
\* all grow by (0.01, 0.01, 0.005) a frame, the velocity magnitude is the
\* same for every frame gap, the acceleration and jerk magnitudes are 0, and
\* features 3 and 4 are 0.
C14_SteadyClipHasNoAcceleration ==
    TestClipDifferentiated =>
        /\ ConstantSpeed(call.result.value.velocity)
        /\ \A i \in 1..Len(call.result.value.acc_magnitude) :
              \A j \in 1..TestJoints :
                 IsZero(call.result.value.acc_magnitude[i][j])
        /\ \A i \in 1..Len(call.result.value.jerk_magnitude) :
              \A j \in 1..TestJoints :
                 IsZero(call.result.value.jerk_magnitude[i][j])
        /\ IsZero(call.result.value.features[3])
        /\ IsZero(call.result.value.features[4])

\* C14, amended: for that clip every component of velocity, acceleration
\* and jerk is a rounding error of at most 2^-52, but they are not all 0:
\* the velocity magnitude is not the same for every frame gap, and features
\* 3 and 4 are the means of 51 and 34 magnitudes that are not all 0.
C14_SteadyClipAcceleratesByRounding ==
    TestClipDifferentiated =>
        /\ AllNoise(call.result.value.velocity)
        /\ AllNoise(call.result.value.acceleration)
        /\ AllNoise(call.result.value.jerk)
        /\ ~ConstantSpeed(call.result.value.velocity)
        /\ call.result.value.features[3].fn = "mean"
        /\ Len(call.result.value.features[3].of) = 3 * TestJoints
        /\ ~IsZero(call.result.value.features[3])
        /\ call.result.value.features[4].fn = "mean"
        /\ Len(call.result.value.features[4].of) = 2 * TestJoints
        /\ ~IsZero(call.result.value.features[4])

\* C14: the test's own clip has been differentiated.
C14_TestClipReached ==
    /\ TestClipDifferentiated
    /\ skeleton_data = DoubleClip("computed", TestJoints, TestFrames)
    /\ ~IsZero(call.result.value.features[3])

\* The frames root_centering was given, before and after the offsets.
Parsed == parse_skeleton_data(skeleton_data, n_joints).value

Moved == Translated(Parsed, call.args[1])

Recentred == call.name = "root_centering" /\ call.result.raised = "none"

\* Joint 0 is (0, 0, 0) in every frame, and every joint is its own position
\* less that of joint 0 in the same frame.
RelativeToRoot(out, data) ==
    \A f \in 1..Len(out) :
       /\ ZeroVector3(out[f][1])
       /\ \A j \in 1..Len(out[f]) : out[f][j] = Minus64(data[f][j], data[f][1])

\* a and b lie at most 2^-52 apart.
Near(a, b) == Noise(Minus64(a, b))

\* No coordinate was rounded when its offset was added.
MovedExactly(data, offsets) ==
    \A f \in 1..Len(data) : \A j \in 1..Len(data[f]) : \A k \in 1..3 :
       FloatPlus(data[f][j][k], offsets[f][k])
          = ExactPlus(data[f][j][k], offsets[f][k])

\* C19 as stated: after root_centering joint 0 is (0, 0, 0) in every frame
\* and every joint is its position less joint 0's, so an offset added to all
\* joints of a frame, frame by frame, leaves the recentred sequence as it is
\* without the offsets.
C19_TranslationLeavesRecentredUnchanged ==
    Recentred =>
        /\ RelativeToRoot(call.result.value, Moved)
        /\ call.result.value = root_centering64(Parsed)

\* C19, amended: joint 0 is (0, 0, 0) and every joint is its position less
\* joint 0's, in double arithmetic; offsets added to the frames move a
\* recentred coordinate by at most 2^-52, and by nothing when no coordinate
\* was rounded as its offset was added.
C19_TranslationMovesRecentredByRounding ==
    Recentred =>
        /\ RelativeToRoot(call.result.value, Moved)
        /\ \A f \in 1..Len(Parsed) : \A j \in 1..n_joints :
              Near(call.result.value[f][j], root_centering64(Parsed)[f][j])
        /\ MovedExactly(Parsed, call.args[1])
              => call.result.value = root_centering64(Parsed)

\* C19: frames moved by different offsets have been recentred, and rounding
\* has changed the outcome.
C19_MovedFramesReached ==
    /\ Recentred
    /\ Len(Parsed) >= 2
    /\ call.args[1][1] # call.args[1][2]
    /\ call.result.value # root_centering64(Parsed)


D_0_8 == <<214748364, 214748368>>

Q_0_625 == <<1, 20971520, 0>>

\* The rule-based strategy has answered a call with the default vector.
DefaultVectorClassified ==
    /\ op.name = "predict"
    /\ op.raised = "none"
    /\ features = DefaultFeatures
    /\ \E i \in 1..Len(op.calls) : op.calls[i] = "_rule_based_prediction"

\* C27: the rule-based strategy classifies the vector extract_features
\* returns for fewer than 2 frames as Neutral: Happy and Fear score 0.15,
\* Sad, Disgust and Angry 0, Neutral 0.5, the total is 0.8 and the
\* confidence 0.5 / 0.8 = 0.625.
C27_DefaultVectorIsNeutral ==
    DefaultVectorClassified =>
        /\ result.emotion = "Neutral"
        /\ result.probabilities =
              AsDict(<<<<D_0_15, D_0_8>>, <<DZero, D_0_8>>, <<D_0_15, D_0_8>>,
                       <<DZero, D_0_8>>, <<DZero, D_0_8>>, <<D_0_5, D_0_8>>>>)
        /\ result.confidence = <<D_0_5, D_0_8>>
        /\ QuotValue(result.confidence) = Q_0_625

\* C27: an object in fallback mode was called with the default vector.
C27_DefaultVectorReached ==
    /\ DefaultVectorClassified
    /\ op.outcome = "not called"
    /\ result.emotion = "Neutral"


\* The score behind a probability of the rule-based strategy.
ScoreOf(e) == result.probabilities[e][1]

Others == Emotions \ {"Neutral"}

\* C22: the rule-based strategy returns Neutral exactly when each of Happy,
\* Sad, Fear, Disgust and Angry scores strictly below 0.5; a score of 0.5 or
\* more for any of them keeps Neutral from being returned, 0.5 itself
\* through the tie-break.
C22_NeutralOnlyAboveAllOthers ==
    result.status = "ok" =>
        (result.emotion = "Neutral"
            <=> \A e \in Others : DLess(ScoreOf(e), D_0_5))

\* C22: some category scores exactly 0.5, none scores more, and the one
\* returned is not Neutral.
C22_TieWithNeutralReached ==
    /\ result.status = "ok"
    /\ \E e \in Others : ScoreOf(e) = D_0_5
    /\ \A e \in Others : DLeq(ScoreOf(e), D_0_5)
    /\ result.emotion # "Neutral"


\* C26: every result predict_emotion returns, under either strategy, is
\* consistent: emotion is a key of probabilities, confidence is the
\* probability stored under it, and no probability is larger.
C26_ResultIsConsistent ==
    (op.name = "predict" /\ op.raised = "none") =>
        /\ result.emotion \in DOMAIN result.probabilities
        /\ result.confidence = result.probabilities[result.emotion]
        /\ \A l \in DOMAIN result.probabilities :
              ~QuotLess(result.confidence, result.probabilities[l])


\* ConstructInstance numbers the objects in the order they are built: the
\* first one has the least number.
FirstInstance == CHOOSE h \in HandleIds : \A other \in HandleIds : h <= other

\* C24: once the first call has created the instance, a later get_model or
\* predict_emotion call returns or uses an instance built from the first
\* path, whatever path it is given, and the fallback flag the first path
\* decided governs it: a thread that has received the first instance from
\* one call receives from its next call an instance with that path and flag.
C24_LaterCallsUseFirstPath ==
    \A t \in ThreadIds :
        \A i \in 2..Len(threads[t].got) :
            threads[t].got[i - 1] = FirstInstance =>
                LET first == handles[FirstInstance]
                    later == handles[threads[t].got[i]]
                IN  /\ later.model_path = first.model_path
                    /\ later.use_fallback = first.use_fallback


\* What holds of get_model whatever the interleaving: while one object has
\* been built every call has received it, whatever path it was given; and a
\* call that leaves line 284 builds nothing and returns the object stored
\* at that moment.
OneInstanceServesEveryCall ==
    Cardinality(Constructed) <= 1 =>
        \A t \in ThreadIds :
            \A i \in 1..Len(threads[t].got) : threads[t].got[i] = FirstInstance

StoredInstanceIsReturnedAsIs ==
    [][\A t \in ThreadIds :
          (threads[t].pc = "284" /\ threads'[t].pc # "284") =>
              /\ handles' = handles
              /\ threads'[t].got = Append(threads[t].got, model_instance.value)]_vars


\* The frames parse_skeleton_data makes of the entries, and the frames that
\* reach the first np.diff.
ParsedFrames == Len(skeleton_data) \div n_joints

Differentiated == IF ParsedFrames >= MinFrames THEN ParsedFrames ELSE MinFrames

\* C23: in extract_features_from_skeleton every input that parses reaches
\* differentiation with F >= 4 frames, so velocity, acceleration and jerk
\* have F-1 >= 3, F-2 >= 2 and F-3 >= 1 rows, and features 3 and 4 are the
\* means of the magnitudes, never the 0 of the else branches.
C23_DefaultsNeverTaken ==
    (call.name = "kinematics" /\ call.result.raised = "none") =>
        LET k == call.result.value
            F == Differentiated
        IN  /\ F >= 4
            /\ Len(k.velocity) = F - 1
            /\ Len(k.acceleration) = F - 2
            /\ Len(k.jerk) = F - 3
            /\ Size(k.acc_magnitude) > 0
            /\ Size(k.jerk_magnitude) > 0
            /\ k.features[3] = Mean(Flatten(k.acc_magnitude))
            /\ k.features[4] = Mean(Flatten(k.jerk_magnitude))

\* C23: a clip of one frame has gone through; its jerk has one row.
C23_OneFrameReached ==
    /\ call.name = "kinematics"
    /\ call.result.raised = "none"
    /\ ParsedFrames = 1
    /\ Len(call.result.value.jerk) = 1
    /\ call.result.value.features[4].fn = "mean"


\* The 13 names in the order the claim gives them.
CanonicalJoints ==
    <<"nose", "left_shoulder", "right_shoulder", "left_elbow", "right_elbow",
      "left_wrist", "right_wrist", "left_hip", "right_hip", "left_knee",
      "right_knee", "left_ankle", "right_ankle">>

\* The entry the claim gives a joint of a frame.
Substituted(frame, name) ==
    IF name \notin DOMAIN frame THEN Entry(0, 0, 0)
    ELSE IF frame[name] = <<>> THEN Entry(0, 0, 0)
    ELSE IF Len(frame[name]) = 2 THEN Entry(frame[name][1], frame[name][2], 0)
    ELSE Entry(frame[name][1], frame[name][2], frame[name][3])

Handed(frames) ==
    [k \in 1..(13 * Len(frames)) |->
        Substituted(frames[((k - 1) \div 13) + 1],
                    CanonicalJoints[((k - 1) % 13) + 1])]

\* C21: extract_features given 2 or more frames hands to
\* extract_features_from_skeleton 13 entries a frame, those of the 13
\* canonical joints in their fixed order, with (0,0,0) for a joint the frame
\* lacks or holds empty and z = 0 for one given with 2 coordinates, and it
\* does not fail over a missing joint.
C21_EveryFrameMappedOntoThirteenJoints ==
    (call.name = "extract_features" /\ keypoints.type = "list"
        /\ Len(keypoints.items) >= 2) =>
        /\ Len(SkeletonOf(keypoints.items)) = 13 * Len(keypoints.items)
        /\ SkeletonOf(keypoints.items) = Handed(keypoints.items)
        /\ call.result =
              After(<<"extract_features_from_skeleton">>,
                    extract_features_from_skeleton(Handed(keypoints.items), 13))
        /\ call.result.raised = "none"

\* C21: frames that lack joints, hold one empty and give two coordinates
\* have gone through extract_features.
C21_FramesWithGapsReached ==
    /\ call.name = "extract_features"
    /\ keypoints.type = "list"
    /\ Len(keypoints.items) >= 2
    /\ "right_ankle" \notin DOMAIN keypoints.items[1]
    /\ keypoints.items[1]["left_hip"] = <<>>
    /\ Len(keypoints.items[1]["nose"]) = 2
    /\ call.result.raised = "none"

=============================================================================
